---- MODULE Spec2Model ----
(***************************************************************************)
(* A model of the prospect matcher (src/lib/prospectMatcher): the key      *)
(* normaliser createMatchKey, the field accessor getFieldValue, the        *)
(* column validation validateColumns, the indexer createPlayerMaps and the *)
(* matching loop of findMatches.                                           *)
(*                                                                         *)
(* A JavaScript string is a sequence of one-character strings.  A value of *)
(* a record field is a string, a number (held by its decimal digits), null *)
(* or undefined.  A record is either an object (its keys in insertion      *)
(* order, with their values) or an array of values.                        *)
(***************************************************************************)
EXTENDS Integers, Sequences, FiniteSets, TLC

\* ------------------------------------------------------------------ bounds
\* Longest dataset A (Fantrax) and dataset B (IBW) handed to findMatches.
MaxA == 2
MaxB == 2
\* Longest name / team string handed to createMatchKey in KeySpec.
MaxLen == 2

\* ----------------------------------------------------------------- strings
IsSpace(c) == c \in {" ", "\t"}

\* String.prototype.toLowerCase, one character.
ToLowerChar(c) ==
  CASE c = "A" -> "a"
    [] c = "B" -> "b"
    [] c = "C" -> "c"
    [] c = "D" -> "d"
    [] c = "F" -> "f"
    [] c = "P" -> "p"
    [] c = "X" -> "x"
    [] c = "Y" -> "y"
    [] c = "Z" -> "z"
    [] OTHER -> c

ToLowerCase(s) == [i \in 1..Len(s) |-> ToLowerChar(s[i])]

RECURSIVE TrimStart(_)
TrimStart(s) ==
  IF s # <<>> /\ IsSpace(Head(s)) THEN TrimStart(Tail(s)) ELSE s

RECURSIVE TrimEnd(_)
TrimEnd(s) ==
  IF s # <<>> /\ IsSpace(s[Len(s)]) THEN TrimEnd(SubSeq(s, 1, Len(s) - 1)) ELSE s

\* String.prototype.trim
Trim(s) == TrimEnd(TrimStart(s))

\* ------------------------------------------------------------ createMatchKey
\* The team argument of a call: given (with its string) or omitted, in which
\* case the default parameter value "" is used.
TeamArg(s) == [given |-> TRUE, s |-> s]
TeamOmitted == [given |-> FALSE, s |-> <<>>]
TeamParam(team) == IF team.given THEN team.s ELSE <<>>

\* Faulty variants of createMatchKey: one that forgets toLowerCase on the name, one
\* that writes the separator whether or not a team was given.
createMatchKeyNoLower(playerName, team) ==
  LET teamName == TeamParam(team)
  IN  IF teamName # <<>>
      THEN Trim(playerName) \o <<"_">> \o ToLowerCase(Trim(teamName))
      ELSE Trim(playerName)

createMatchKeyAlwaysSeparator(playerName, team) ==
  ToLowerCase(Trim(playerName)) \o <<"_">> \o ToLowerCase(Trim(TeamParam(team)))

\* createMatchKey(playerName, teamName = ""): a non-empty string is truthy.
createMatchKey(playerName, team) ==
  LET teamName == TeamParam(team)
      normalizedName == ToLowerCase(Trim(playerName))
      normalizedTeam == ToLowerCase(Trim(teamName))
  IN  IF teamName # <<>> THEN normalizedName \o <<"_">> \o normalizedTeam
      ELSE normalizedName

\* ------------------------------------------------------------------- values
Str(s) == [t |-> "str", s |-> s]
Num(digits) == [t |-> "num", s |-> digits]
NullV == [t |-> "null", s |-> <<>>]
UndefV == [t |-> "undef", s |-> <<>>]

\* String(value) of a value that is neither null nor undefined.
StringOf(v) == v.s

\* ------------------------------------------------------------------ records
Obj(keys, vals) == [isArray |-> FALSE, keys |-> keys, vals |-> vals]
Arr(vals) == [isArray |-> TRUE, keys |-> <<>>, vals |-> vals]

\* obj[name] for an object; obj[index] for an array (index a parsed number).
Prop(obj, name) ==
  IF \E i \in 1..Len(obj.keys) : obj.keys[i] = name
  THEN obj.vals[CHOOSE i \in 1..Len(obj.keys) : obj.keys[i] = name]
  ELSE UndefV

\* A JavaScript number as far as parseInt and Math.max need it.
NumOf(n) == [k |-> "num", v |-> n]
NaN == [k |-> "nan", v |-> 0]
NegInfinity == [k |-> "neginf", v |-> 0]

\* A faulty variant of the element access: positions count from 1.
AtOneBased(arr, index) ==
  IF index.k = "num" /\ index.v >= 1 /\ index.v <= Len(arr.vals)
  THEN arr.vals[index.v]
  ELSE UndefV

At(arr, index) ==
  IF index.k = "num" /\ index.v >= 0 /\ index.v < Len(arr.vals)
  THEN arr.vals[index.v + 1]
  ELSE UndefV

\* parseInt(name, 10) of an identifier.
ParseInt(name) ==
  CASE name = "0" -> NumOf(0)
    [] name = "1" -> NumOf(1)
    [] name = "2" -> NumOf(2)
    [] name = "3" -> NumOf(3)
    [] name = "4" -> NumOf(4)
    [] name = "5" -> NumOf(5)
    [] OTHER -> NaN

\* ------------------------------------------------- field specifications
\* What a role of the column mapping holds: one identifier, a list of
\* candidate identifiers, or null.
Id(name) == [k |-> "id", ids |-> <<name>>]
IdList(names) == [k |-> "list", ids |-> names]
NullSpec == [k |-> "null", ids |-> <<>>]

\* parseInt(col, 10) of a role's value: an array is first converted to the
\* string of its elements joined by commas, of which parseInt reads the
\* leading digits; null is converted to "null".
ParseIntSpec(col) ==
  IF col.ids = <<>> THEN NaN ELSE ParseInt(col.ids[1])

\* obj[fieldName] !== undefined && obj[fieldName] !== null
Present(v) == v.t # "undef" /\ v.t # "null"

\* One candidate looked up in a record (object or array).
Lookup(obj, name) ==
  IF obj.isArray THEN At(obj, ParseInt(name)) ELSE Prop(obj, name)

RECURSIVE FirstPresent(_, _)
FirstPresent(obj, names) ==
  IF names = <<>> THEN <<>>
  ELSE IF Present(Lookup(obj, Head(names)))
       THEN Trim(StringOf(Lookup(obj, Head(names))))
       ELSE FirstPresent(obj, Tail(names))

\* getFieldValue(obj, fieldName).  A null fieldName names the property
\* "null" of an object and the index NaN of an array.
getFieldValue(obj, fieldName) ==
  CASE fieldName.k = "list" -> FirstPresent(obj, fieldName.ids)
    [] fieldName.k = "null" ->
         IF obj.isArray THEN <<>>
         ELSE IF Present(Prop(obj, "null")) THEN Trim(StringOf(Prop(obj, "null")))
              ELSE <<>>
    [] OTHER ->
         IF Present(Lookup(obj, fieldName.ids[1]))
         THEN Trim(StringOf(Lookup(obj, fieldName.ids[1])))
         ELSE <<>>

\* ------------------------------------------------------------ column mapping
\* defaultMapping, and the order in which Object.values lists its roles.
DefaultFantrax ==
  [player |-> Id("Player"), team |-> Id("Team"), number |-> Id("Number"),
   position |-> Id("Position"), age |-> Id("Age")]
DefaultIBW ==
  [player |-> Id("Player"), team |-> Id("Team"), rank |-> Id("Number"),
   number |-> Id("Number")]
FantraxRoles == <<"player", "team", "number", "position", "age">>
IBWRoles == <<"player", "team", "rank", "number">>

\* A faulty variant of the merge: the spreads are in the other order, so
\* the defaults replace the caller's roles.
MergeMappingDefaultsWin(columnMapping) ==
  [fantrax |-> DefaultFantrax @@ columnMapping.fantrax,
   ibw |-> DefaultIBW @@ columnMapping.ibw]

\* { ...defaultMapping.fantrax, ...columnMapping.fantrax } and the same for
\* ibw: the caller's roles replace the defaults, per dataset.  A dataset the
\* caller left out is the empty function.
MergeMapping(columnMapping) ==
  [fantrax |-> columnMapping.fantrax @@ DefaultFantrax,
   ibw |-> columnMapping.ibw @@ DefaultIBW]

\* Object.values(mapping.x).filter(col => col !== null)
ConfiguredColumns(roleMapping, roles) ==
  SelectSeq([i \in 1..Len(roles) |-> roleMapping[roles[i]]],
            LAMBDA col : col.k # "null")

\* ------------------------------------------------------------------- errors
NoError ==
  [msg |-> "", dataType |-> "", missing |-> <<>>, available |-> <<>>,
   maxIndex |-> 0, lastIndex |-> 0]
ValidationError(message, dataType) ==
  [msg |-> message, dataType |-> dataType, missing |-> <<>>,
   available |-> <<>>, maxIndex |-> 0, lastIndex |-> 0]
\* "Missing required columns in <dataType> data: <missing>. Available
\* columns: <available>"
MissingColumnsError(dataType, missing, available) ==
  [msg |-> "Missing required columns", dataType |-> dataType,
   missing |-> missing, available |-> available, maxIndex |-> 0, lastIndex |-> 0]
\* "Missing required columns in <dataType> data: column index <maxIndex> not
\* found. Available columns: 0-<length - 1>"
MissingIndexError(dataType, maxIndex, length) ==
  [msg |-> "Missing required columns: column index not found",
   dataType |-> dataType, missing |-> <<>>, available |-> <<>>,
   maxIndex |-> maxIndex, lastIndex |-> length - 1]

\* ---------------------------------------------------------- validateColumns
\* Math.max(a, b) with NaN and -Infinity.
MathMax2(a, b) ==
  CASE a.k = "nan" \/ b.k = "nan" -> NaN
    [] a.k = "neginf" -> b
    [] b.k = "neginf" -> a
    [] OTHER -> IF a.v >= b.v THEN a ELSE b

RECURSIVE MathMax(_)
MathMax(nums) ==
  IF nums = <<>> THEN NegInfinity ELSE MathMax2(Head(nums), MathMax(Tail(nums)))

\* availableColumns.some((available) => available === col): a list of
\* candidates is never === a key.
IsAvailable(sampleRecord, col) ==
  col.k = "id" /\ \E i \in 1..Len(sampleRecord.keys) : sampleRecord.keys[i] = col.ids[1]

\* A faulty variant of validateColumns: only the first column handed in (the player
\* role's) is required of an object.
validateColumnsFirstOnly(sampleRecord, requiredColumns, dataType) ==
  IF sampleRecord.isArray
  THEN LET maxIndex ==
             MathMax([i \in 1..Len(requiredColumns) |-> ParseIntSpec(requiredColumns[i])])
       IN  IF maxIndex.k = "num" /\ maxIndex.v >= Len(sampleRecord.vals)
           THEN MissingIndexError(dataType, maxIndex.v, Len(sampleRecord.vals))
           ELSE NoError
  ELSE LET missingColumns ==
             SelectSeq(SubSeq(requiredColumns, 1, 1),
                       LAMBDA col : ~IsAvailable(sampleRecord, col))
       IN  IF Len(missingColumns) > 0
           THEN MissingColumnsError(dataType, missingColumns, sampleRecord.keys)
           ELSE NoError

\* validateColumns(sampleRecord, requiredColumns, dataType): the error it
\* throws, or NoError.
validateColumns(sampleRecord, requiredColumns, dataType) ==
  IF sampleRecord.isArray
  THEN LET maxIndex ==
             MathMax([i \in 1..Len(requiredColumns) |-> ParseIntSpec(requiredColumns[i])])
       IN  IF maxIndex.k = "num" /\ maxIndex.v >= Len(sampleRecord.vals)
           THEN MissingIndexError(dataType, maxIndex.v, Len(sampleRecord.vals))
           ELSE NoError
  ELSE LET missingColumns ==
             SelectSeq(requiredColumns, LAMBDA col : ~IsAvailable(sampleRecord, col))
       IN  IF Len(missingColumns) > 0
           THEN MissingColumnsError(dataType, missingColumns, sampleRecord.keys)
           ELSE NoError

\* ----------------------------------------------------------------- datasets
\* An argument of findMatches: an array of records, or something that is not
\* an array (null, for one).
ArrayOf(items) == [isArray |-> TRUE, items |-> items]
NotAnArray == [isArray |-> FALSE, items |-> <<>>]

\* A faulty variant of the input validation: the second check was copied from the
\* first and still names Fantrax.
ValidateInputsCopied(fantrax, ibw) ==
  IF ~fantrax.isArray \/ Len(fantrax.items) = 0
  THEN ValidationError("Fantrax players must be a non-empty array", "Fantrax")
  ELSE IF ~ibw.isArray \/ Len(ibw.items) = 0
       THEN ValidationError("Fantrax players must be a non-empty array", "Fantrax")
       ELSE NoError

\* if (!Array.isArray(fantraxPlayers) || fantraxPlayers.length === 0) throw ...
\* if (!Array.isArray(ibwPlayers) || ibwPlayers.length === 0) throw ...
ValidateInputs(fantrax, ibw) ==
  IF ~fantrax.isArray \/ Len(fantrax.items) = 0
  THEN ValidationError("Fantrax players must be a non-empty array", "Fantrax")
  ELSE IF ~ibw.isArray \/ Len(ibw.items) = 0
       THEN ValidationError("IBW players must be a non-empty array", "IBW")
       ELSE NoError

\* --------------------------------------------------------- createPlayerMaps
\* The two lookup maps.  A Map is the function from its keys to its values; a
\* value is a reference to a record of dataset A, held as the record's
\* position (from 1) in fantraxPlayers.
EmptyMaps == [exact |-> <<>>, nameOnly |-> <<>>]

MapHas(map, key) == key \in DOMAIN map
MapSet(map, key, value) == (key :> value) @@ map

\* A faulty variant of the indexer: a record without a player name is not
\* skipped.
IndexRecordNoSkip(maps, record, ref, roleMapping) ==
  LET playerName == getFieldValue(record, roleMapping.player)
      teamName == getFieldValue(record, roleMapping.team)
      fullKey == createMatchKey(playerName, TeamArg(teamName))
      nameOnlyKey == createMatchKey(playerName, TeamOmitted)
  IN  [exact |-> MapSet(maps.exact, fullKey, ref),
       nameOnly |-> IF ~MapHas(maps.nameOnly, nameOnlyKey)
                    THEN MapSet(maps.nameOnly, nameOnlyKey, ref)
                    ELSE maps.nameOnly]

\* A faulty variant of the indexer: a later record with the same name
\* replaces the one the name-only map holds.
IndexRecordNameOverwrite(maps, record, ref, roleMapping) ==
  LET playerName == getFieldValue(record, roleMapping.player)
      teamName == getFieldValue(record, roleMapping.team)
      fullKey == createMatchKey(playerName, TeamArg(teamName))
      nameOnlyKey == createMatchKey(playerName, TeamOmitted)
  IN  IF playerName = <<>> THEN maps
      ELSE [exact |-> MapSet(maps.exact, fullKey, ref),
            nameOnly |-> MapSet(maps.nameOnly, nameOnlyKey, ref)]

\* A faulty variant of the indexer: the exact map keeps the first record of
\* a full key.
IndexRecordKeepFirstExact(maps, record, ref, roleMapping) ==
  LET playerName == getFieldValue(record, roleMapping.player)
      teamName == getFieldValue(record, roleMapping.team)
      fullKey == createMatchKey(playerName, TeamArg(teamName))
      nameOnlyKey == createMatchKey(playerName, TeamOmitted)
  IN  IF playerName = <<>> THEN maps
      ELSE [exact |-> IF ~MapHas(maps.exact, fullKey)
                      THEN MapSet(maps.exact, fullKey, ref)
                      ELSE maps.exact,
            nameOnly |-> IF ~MapHas(maps.nameOnly, nameOnlyKey)
                         THEN MapSet(maps.nameOnly, nameOnlyKey, ref)
                         ELSE maps.nameOnly]

\* The body of createPlayerMaps' forEach for one record.  (x || "" is x for
\* a string x.)
IndexRecord(maps, record, ref, roleMapping) ==
  LET playerName == getFieldValue(record, roleMapping.player)
      teamName == getFieldValue(record, roleMapping.team)
      fullKey == createMatchKey(playerName, TeamArg(teamName))
      nameOnlyKey == createMatchKey(playerName, TeamOmitted)
  IN  IF playerName = <<>> THEN maps
      ELSE [exact |-> MapSet(maps.exact, fullKey, ref),
            nameOnly |-> IF ~MapHas(maps.nameOnly, nameOnlyKey)
                         THEN MapSet(maps.nameOnly, nameOnlyKey, ref)
                         ELSE maps.nameOnly]

\* -------------------------------------------------------------- findMatches
\* The outcome of the two strategies for one record of dataset B: the
\* reference to the matched record (0 for null) and the match type.
NoMatch == [fantraxRef |-> 0, matchType |-> "none"]

\* A faulty variant of the strategies: the name-only lookup is tried first.
MatchStrategyNameFirst(maps, fullKey, nameOnlyKey) ==
  IF MapHas(maps.nameOnly, nameOnlyKey)
  THEN [fantraxRef |-> maps.nameOnly[nameOnlyKey], matchType |-> "name-only"]
  ELSE IF MapHas(maps.exact, fullKey)
       THEN [fantraxRef |-> maps.exact[fullKey], matchType |-> "exact"]
       ELSE NoMatch

\* Strategy 1 (exact), else strategy 2 (name only), else no match.
MatchStrategy(maps, fullKey, nameOnlyKey) ==
  IF MapHas(maps.exact, fullKey)
  THEN [fantraxRef |-> maps.exact[fullKey], matchType |-> "exact"]
  ELSE IF MapHas(maps.nameOnly, nameOnlyKey)
       THEN [fantraxRef |-> maps.nameOnly[nameOnlyKey], matchType |-> "name-only"]
       ELSE NoMatch

\* A faulty variant of the counters' start: only records of dataset B that
\* hold a player name are counted.
InitialStatsNamedOnly(ibw) ==
  [exactMatches |-> 0, nameOnlyMatches |-> 0, totalMatches |-> 0,
   totalIBWPlayers |->
     Len(SelectSeq(ibw.items,
                   LAMBDA r : getFieldValue(r, DefaultIBW.player) # <<>>))]

\* const stats = { exactMatches: 0, ..., totalIBWPlayers: ibwPlayers.length }
InitialStats(ibw) ==
  [exactMatches |-> 0, nameOnlyMatches |-> 0, totalMatches |-> 0,
   totalIBWPlayers |-> Len(ibw.items)]

\* A faulty variant of the counters: a name-only match is not counted in the total.
StatsAfterExactTotalOnly(st, found) ==
  [st EXCEPT !.exactMatches = @ + (IF found.matchType = "exact" THEN 1 ELSE 0),
             !.nameOnlyMatches = @ + (IF found.matchType = "name-only" THEN 1 ELSE 0),
             !.totalMatches = @ + (IF found.matchType = "exact" THEN 1 ELSE 0)]

\* stats.exactMatches++ / stats.nameOnlyMatches++ in the strategy taken, and
\* stats.totalMatches++ under if (fantraxData).
StatsAfter(st, found) ==
  [st EXCEPT !.exactMatches = @ + (IF found.matchType = "exact" THEN 1 ELSE 0),
             !.nameOnlyMatches = @ + (IF found.matchType = "name-only" THEN 1 ELSE 0),
             !.totalMatches = @ + (IF found.fantraxRef # 0 THEN 1 ELSE 0)]

\* A faulty variant of the match record: every match carries index 0.
NewMatchIndexZero(ibwPlayer, fantrax, found, index) ==
  [ibwPlayer |-> ibwPlayer, fantraxData |-> fantrax.items[found.fantraxRef],
   fantraxRef |-> found.fantraxRef, matchType |-> found.matchType, ibwIndex |-> 0]

\* A faulty variant of the match record: the index counts from 1.
NewMatchIndexFromOne(ibwPlayer, fantrax, found, index) ==
  [ibwPlayer |-> ibwPlayer, fantraxData |-> fantrax.items[found.fantraxRef],
   fantraxRef |-> found.fantraxRef, matchType |-> found.matchType,
   ibwIndex |-> index + 1]

\* { ibwPlayer, fantraxData, matchType, ibwIndex: index }
NewMatch(ibwPlayer, fantrax, found, index) ==
  [ibwPlayer |-> ibwPlayer, fantraxData |-> fantrax.items[found.fantraxRef],
   fantraxRef |-> found.fantraxRef, matchType |-> found.matchType, ibwIndex |-> index]

\* What one record of dataset B is matched to: the skip of an empty name,
\* the two keys and the strategies.
FindOne(maps, ibwPlayer, ibwMapping) ==
  LET playerName == getFieldValue(ibwPlayer, ibwMapping.player)
      teamName == getFieldValue(ibwPlayer, ibwMapping.team)
  IN  IF playerName = <<>> THEN NoMatch
      ELSE MatchStrategy(maps, createMatchKey(playerName, TeamArg(teamName)),
                         createMatchKey(playerName, TeamOmitted))

\* ------------------------------------------------------- formatMatchResults
\* The keys of an output row, in the order of the object literal.
OutputKeys ==
  <<"IBW Rank", "IBW Player", "IBW Team", "Fantrax Number", "Fantrax Player",
    "Fantrax Team", "Fantrax Position", "Fantrax Age", "Match Type">>
NumberAliases == <<"Number", "#", "ID">>
PositionAliases == <<"Position", "Pos">>

\* A faulty variant of the candidates: the aliases are used only when the
\* role is null.
FormatCandidatesPrimaryOnly(primary, aliases) ==
  IF primary.k = "null" THEN [i \in 1..Len(aliases) |-> Id(aliases[i])]
  ELSE <<primary>>

\* [columnMapping.fantrax.<role>, ...aliases].filter(col => col !== null):
\* the role's identifier, unless null, then the aliases.
FormatCandidates(primary, aliases) ==
  IF primary.k = "null" THEN [i \in 1..Len(aliases) |-> Id(aliases[i])]
  ELSE <<primary>> \o [i \in 1..Len(aliases) |-> Id(aliases[i])]

\* obj[name] / obj[parseInt(name, 10)] for one element of such a list.  An
\* element that is itself a list is converted to its elements joined by
\* commas: parseInt reads the first element, and the joined string is the
\* element itself when there is only one and otherwise names no column.
CandidateValue(obj, cand) ==
  IF cand.k = "id" THEN Lookup(obj, cand.ids[1])
  ELSE IF cand.ids = <<>> THEN Lookup(obj, "")
  ELSE IF obj.isArray THEN At(obj, ParseInt(cand.ids[1]))
  ELSE IF Len(cand.ids) = 1 THEN Prop(obj, cand.ids[1])
  ELSE UndefV

\* getFieldValue(obj, [...]) on such a list: lines 158-171.
RECURSIVE FirstCandidate(_, _)
FirstCandidate(obj, cands) ==
  IF cands = <<>> THEN <<>>
  ELSE IF Present(CandidateValue(obj, Head(cands)))
       THEN Trim(StringOf(CandidateValue(obj, Head(cands))))
       ELSE FirstCandidate(obj, Tail(cands))

\* columnMapping.fantrax.age || "Age": null and "" are falsy.
AgeOrDefault(age) ==
  IF age.k = "null" \/ age = Id("") THEN Id("Age") ELSE age

\* A faulty variant of the output row: the age is copied from the record
\* as it is, not through getFieldValue.
FormatRowRawAge(match, cm) ==
  ("IBW Rank" :> Str(getFieldValue(match.ibwPlayer, cm.ibw.rank)))
  @@ ("IBW Player" :> Str(getFieldValue(match.ibwPlayer, cm.ibw.player)))
  @@ ("IBW Team" :> Str(getFieldValue(match.ibwPlayer, cm.ibw.team)))
  @@ ("Fantrax Number" :>
        Str(FirstCandidate(match.fantraxData,
                           FormatCandidates(cm.fantrax.number, NumberAliases))))
  @@ ("Fantrax Player" :> Str(getFieldValue(match.fantraxData, cm.fantrax.player)))
  @@ ("Fantrax Team" :> Str(getFieldValue(match.fantraxData, cm.fantrax.team)))
  @@ ("Fantrax Position" :>
        Str(FirstCandidate(match.fantraxData,
                           FormatCandidates(cm.fantrax.position, PositionAliases))))
  @@ ("Fantrax Age" :> CandidateValue(match.fantraxData, AgeOrDefault(cm.fantrax.age)))
  @@ ("Match Type" :> Str(match.matchType))

\* The object literal of lines 226-248: one output row.  getFieldValue
\* returns a string, matchType is one.
FormatRow(match, cm) ==
  ("IBW Rank" :> Str(getFieldValue(match.ibwPlayer, cm.ibw.rank)))
  @@ ("IBW Player" :> Str(getFieldValue(match.ibwPlayer, cm.ibw.player)))
  @@ ("IBW Team" :> Str(getFieldValue(match.ibwPlayer, cm.ibw.team)))
  @@ ("Fantrax Number" :>
        Str(FirstCandidate(match.fantraxData,
                           FormatCandidates(cm.fantrax.number, NumberAliases))))
  @@ ("Fantrax Player" :> Str(getFieldValue(match.fantraxData, cm.fantrax.player)))
  @@ ("Fantrax Team" :> Str(getFieldValue(match.fantraxData, cm.fantrax.team)))
  @@ ("Fantrax Position" :>
        Str(FirstCandidate(match.fantraxData,
                           FormatCandidates(cm.fantrax.position, PositionAliases))))
  @@ ("Fantrax Age" :> Str(getFieldValue(match.fantraxData, AgeOrDefault(cm.fantrax.age))))
  @@ ("Match Type" :> Str(match.matchType))

\* matches.map(...)
formatMatchResults(matches, cm) ==
  [i \in 1..Len(matches) |-> FormatRow(matches[i], cm)]

\* ------------------------------------------------------------------- inputs
\* Records as readCSV yields them with a header row: all five (three) columns.
FantraxRow(player, team) ==
  Obj(<<"Number", "Player", "Team", "Position", "Age">>,
      <<Num(<<"7">>), player, team, Str(<<"O", "F">>), Num(<<"2", "5">>)>>)
IBWRow(player, team) ==
  Obj(<<"Number", "Player", "Team">>, <<Num(<<"1">>), player, team>>)

\* The records datasets A and B are drawn from: names that differ in case and
\* surrounding blanks, a repeated name, a repeated full key, a blank team, a
\* null and an empty name, a record with the Player column only (whose name
\* holds the separator), and a positional record.
FantraxPool ==
  { FantraxRow(Str(<<"A", "b">>), Str(<<"X">>)),
    FantraxRow(Str(<<" ", "a", "b", " ">>), Str(<<"Y">>)),
    FantraxRow(Str(<<"A", "B">>), Str(<<"x">>)),
    FantraxRow(Str(<<"c">>), Str(<<>>)),
    FantraxRow(NullV, Str(<<"X">>)),
    Obj(<<"Player">>, <<Str(<<"c", "_", "x">>)>>),
    Arr(<<Str(<<"A", "b">>), Str(<<"X">>)>>) }
IBWPool ==
  { IBWRow(Str(<<"a", "b">>), Str(<<"x">>)),
    IBWRow(Str(<<"A", "b", " ">>), Str(<<"Z">>)),
    IBWRow(Str(<<"c">>), Str(<<"x">>)),
    IBWRow(Str(<<" ">>), Str(<<"X">>)),
    Arr(<<Str(<<"a", "b">>), Str(<<"x">>)>>) }

\* The arrays of at most n records of a pool, and a non-array.
Datasets(pool, n) ==
  {ArrayOf(items) : items \in UNION {[1..k -> pool] : k \in 0..n}} \cup {NotAnArray}

\* The caller's columnMapping: none, one that marks every optional role
\* unavailable (null), one that names the player by a list of candidates, and
\* one of column indices for positional records.
ColumnMappings ==
  { [fantrax |-> <<>>, ibw |-> <<>>],
    [fantrax |-> [team |-> NullSpec, number |-> NullSpec, position |-> NullSpec,
                  age |-> NullSpec],
     ibw |-> [rank |-> NullSpec, number |-> NullSpec]],
    [fantrax |-> [player |-> IdList(<<"Name", "Player">>)], ibw |-> <<>>],
    [fantrax |-> [player |-> Id("0"), team |-> Id("1"), number |-> NullSpec,
                  position |-> NullSpec, age |-> NullSpec],
     ibw |-> [player |-> Id("0"), team |-> Id("1"), rank |-> Id("2"),
              number |-> NullSpec]] }

\* EdgeSpec's records.  Dataset A: a named record, records whose name is
\* whitespace, empty, null or missing, and a record whose Number, Position
\* and Age are null while it holds the alias columns Pos and #.  Dataset B:
\* a record that matches exactly, one that matches by name only, and records
\* whose name is empty or null.
EdgeFantraxPool ==
  { FantraxRow(Str(<<"A", "b">>), Str(<<"X">>)),
    FantraxRow(Str(<<" ", " ">>), Str(<<"X">>)),
    FantraxRow(Str(<<>>), Str(<<"X">>)),
    FantraxRow(NullV, Str(<<"X">>)),
    Obj(<<"Number", "Team", "Position", "Age">>,
        <<Num(<<"7">>), Str(<<"X">>), Str(<<"O", "F">>), Num(<<"2", "5">>)>>),
    Obj(<<"Number", "Player", "Team", "Position", "Age", "Pos", "#">>,
        <<NullV, Str(<<"c">>), Str(<<"Z">>), NullV, NullV, Str(<<"S", "S">>),
          Str(<<"9">>)>>) }
EdgeIBWPool ==
  { IBWRow(Str(<<"a", "b">>), Str(<<"x">>)),
    IBWRow(Str(<<"c">>), Str(<<"Q">>)),
    IBWRow(Str(<<>>), Str(<<"X">>)),
    IBWRow(NullV, Str(<<"x">>)) }

\* The non-empty arrays of at most n records of a pool.
EdgeDatasets(pool, n) ==
  {ArrayOf(items) : items \in UNION {[1..k -> pool] : k \in 1..n}}

\* EdgeSpec's columnMapping: none, one that marks the optional roles of the
\* output unavailable, and one that names the position by its alias column.
EdgeColumnMappings ==
  { [fantrax |-> <<>>, ibw |-> <<>>],
    [fantrax |-> [number |-> NullSpec, position |-> NullSpec, age |-> NullSpec],
     ibw |-> [rank |-> NullSpec]],
    [fantrax |-> [position |-> Id("Pos")], ibw |-> <<>>] }

\* DupSpec's records.  Dataset A: one name under three spellings and three
\* teams, one full key twice, a nameless record and another name.  Dataset
\* B: the name with a team of A, with a team of no record of A, and a name
\* of no record of A.
DupFantraxPool ==
  { FantraxRow(Str(<<"A", "b">>), Str(<<"X">>)),
    FantraxRow(Str(<<"a", "b", " ">>), Str(<<"x">>)),
    FantraxRow(Str(<<" ", "a", "b">>), Str(<<"Y">>)),
    FantraxRow(Str(<<>>), Str(<<"X">>)),
    FantraxRow(Str(<<"c">>), Str(<<"X">>)) }
DupIBWPool ==
  { IBWRow(Str(<<"a", "b">>), Str(<<"x">>)),
    IBWRow(Str(<<"a", "b">>), Str(<<"Z">>)),
    IBWRow(Str(<<"d">>), Str(<<"x">>)) }

\* ShapeSpec's records, all positional: names that differ in case and
\* blanks, a third column, a record of one column, a null name and an empty
\* record; and mappings of column indices, one of which names a third
\* column of dataset A and one a third column of dataset B.
ShapeFantraxPool ==
  { Arr(<<Str(<<"A", "b">>), Str(<<"X">>)>>),
    Arr(<<Str(<<" ", "a", "b", " ">>), Str(<<"Y">>), Num(<<"7">>)>>),
    Arr(<<Str(<<"c">>)>>),
    Arr(<<NullV, Str(<<"X">>)>>) }
ShapeIBWPool ==
  { Arr(<<Str(<<"a", "b">>), Str(<<"x">>), Num(<<"1">>)>>),
    Arr(<<Str(<<"A", "b", " ">>), Str(<<"Z">>)>>),
    Arr(<<Str(<<"c">>)>>),
    Arr(<<>>) }
ShapeColumnMappings ==
  { [fantrax |-> [player |-> Id("0"), team |-> Id("1"), number |-> NullSpec,
                  position |-> NullSpec, age |-> NullSpec],
     ibw |-> [player |-> Id("0"), team |-> Id("1"), rank |-> Id("2"),
              number |-> NullSpec]],
    [fantrax |-> [player |-> Id("0"), team |-> Id("1"), number |-> Id("2"),
                  position |-> NullSpec, age |-> NullSpec],
     ibw |-> [player |-> Id("0"), team |-> Id("1"), rank |-> NullSpec,
              number |-> NullSpec]],
    [fantrax |-> [player |-> Id("0"), team |-> NullSpec, number |-> NullSpec,
                  position |-> NullSpec, age |-> NullSpec],
     ibw |-> [player |-> Id("0"), team |-> NullSpec, rank |-> NullSpec,
              number |-> NullSpec]] }

\* The keyed record that holds the values of a positional record under the
\* keys "0", "1", ..., and the dataset of such records.
IndexNames == <<"0", "1", "2", "3", "4", "5">>
KeyedRecord(record) ==
  Obj([i \in 1..Len(record.vals) |-> IndexNames[i]], record.vals)
KeyedDataset(dataset) ==
  ArrayOf([i \in 1..Len(dataset.items) |-> KeyedRecord(dataset.items[i])])

\* FieldSpec's records and field specifications: the object of the tests
\* (a name with surrounding blanks, a number, a null), a record with a
\* column named null, a whitespace name, an empty object, a positional
\* record and an empty one; null, identifiers, indices and lists.
FieldRecords ==
  { Obj(<<"Player", "Team", "Number", "Age">>,
        <<Str(<<" ", "a", " ">>), Str(<<"X">>), Num(<<"3">>), NullV>>),
    Obj(<<"Player", "null">>, <<Str(<<"a">>), Str(<<"x">>)>>),
    Obj(<<"Player">>, <<Str(<<" ", " ">>)>>),
    Obj(<<>>, <<>>),
    Arr(<<Str(<<"a", " ">>), NullV, Num(<<"3">>)>>),
    Arr(<<>>) }
FieldSpecs ==
  { NullSpec, Id("Player"), Id("Team"), Id("Number"), Id("Age"),
    Id("NonExistent"), Id("0"), Id("1"), Id("2"), Id("5"),
    IdList(<<"#", "Number">>), IdList(<<"NonExistent", "Player">>),
    IdList(<<"NonExistent1", "NonExistent2">>), IdList(<<"1", "2">>),
    IdList(<<>>) }

\* The characters and strings createMatchKey is called with in KeySpec.
KeyChars == {"a", "A", " ", "_"}
KeyStrings == UNION {[1..k -> KeyChars] : k \in 0..MaxLen}
KeyTeams == {TeamArg(s) : s \in KeyStrings} \cup {TeamOmitted}

\* -------------------------------------------------------------------- state
VARIABLES
  fantraxPlayers,   \* argument: dataset A
  ibwPlayers,       \* argument: dataset B
  columnMapping,    \* argument: the caller's mapping
  pc,               \* where the call of findMatches is
  mapping,          \* const mapping (merged)
  error,            \* the Error thrown, NoError if none
  fantraxPlayersMap,\* the maps createPlayerMaps is building / has built
  aIdx,             \* records of dataset A indexed so far
  stats,            \* const stats
  matchingPlayers,  \* const matchingPlayers
  bIdx,             \* records of dataset B processed so far
  result,           \* the object returned
  kName, kTeam,     \* KeySpec: the arguments of createMatchKey
  kKey,             \* KeySpec: the key returned
  kAgain,           \* KeySpec: createMatchKey(kKey)
  kpc,              \* KeySpec: "call", "keyed", "again"
  formatted,        \* the rows formatMatchResults returned
  fpc,              \* whether formatMatchResults has been called: "idle", "formatted"
  gObj, gField,     \* FieldSpec: the arguments of getFieldValue
  gValue,           \* FieldSpec: what getFieldValue returned
  gpc,              \* FieldSpec: "call", "returned"
  calls,            \* AgainSpec: which call of findMatches this is (1 or 2)
  previous,         \* AgainSpec: what the first call returned or threw
  textContent,      \* ParseSpec: the argument of parseIBWText
  lines,            \* ParseSpec: the trimmed, non-empty lines
  lineIdx,          \* ParseSpec: lines handled so far
  players,          \* ParseSpec: the players parsed so far
  skippedLines,     \* ParseSpec: the lines skipped so far
  parseError,       \* ParseSpec: the message thrown, "" for none
  ppc,              \* ParseSpec: "call", "lines", "returned", "error"
  objects, headers, \* CsvSpec: the arguments of objectsToCSV
  csv,              \* CsvSpec: what objectsToCSV returned or threw
  cpc,              \* CsvSpec: "call", "returned", "error"
  cliPc,            \* CliSpec: the position in program.action
  exitCode,         \* CliSpec: the status the process ended with, -1 while it runs
  writeCalls,       \* CliSpec: the number of calls of writeCSV
  outputFile        \* CliSpec: the output file: "untouched" or "written"

fmVars ==
  <<fantraxPlayers, ibwPlayers, columnMapping, pc, mapping, error,
    fantraxPlayersMap, aIdx, stats, matchingPlayers, bIdx, result>>
keyVars == <<kName, kTeam, kKey, kAgain, kpc>>
fmtVars == <<formatted, fpc>>
fieldVars == <<gObj, gField, gValue, gpc>>
callVars == <<calls, previous>>
parseVars == <<textContent, lines, lineIdx, players, skippedLines, parseError, ppc>>
csvVars == <<objects, headers, csv, cpc>>
cliVars == <<cliPc, exitCode, writeCalls, outputFile>>
restVars == <<parseVars, csvVars, cliVars>>
vars == <<fmVars, keyVars, fmtVars, fieldVars, callVars, restVars>>

NoMapping == [fantrax |-> <<>>, ibw |-> <<>>]
ZeroStats ==
  [exactMatches |-> 0, nameOnlyMatches |-> 0, totalMatches |-> 0, totalIBWPlayers |-> 0]
NoResult ==
  [returned |-> FALSE, matches |-> <<>>, stats |-> ZeroStats, columnMapping |-> NoMapping]

\* findMatches has just been called with its three arguments.
FindMatchesCalled ==
  /\ pc = "start"
  /\ mapping = NoMapping
  /\ error = NoError
  /\ fantraxPlayersMap = EmptyMaps
  /\ aIdx = 0
  /\ stats = ZeroStats
  /\ matchingPlayers = <<>>
  /\ bIdx = 0
  /\ result = NoResult

KeyIdle ==
  /\ kName = <<>>
  /\ kTeam = TeamOmitted
  /\ kKey = <<>>
  /\ kAgain = <<>>
  /\ kpc = "off"

\* formatMatchResults has not been called.
FormatIdle ==
  /\ formatted = <<>>
  /\ fpc = "idle"

\* getFieldValue is not being called on its own.
FieldIdle ==
  /\ gObj = Obj(<<>>, <<>>)
  /\ gField = NullSpec
  /\ gValue = Str(<<>>)
  /\ gpc = "off"

\* findMatches is being called for the first time.
FirstCall ==
  /\ calls = 1
  /\ previous = [result |-> NoResult, error |-> NoError]

\* parseIBWText, objectsToCSV and the command line are not in use.
ParseIdle ==
  /\ textContent = NullV
  /\ lines = <<>>
  /\ lineIdx = 0
  /\ players = <<>>
  /\ skippedLines = <<>>
  /\ parseError = ""
  /\ ppc = "off"
CsvIdle ==
  /\ objects = NotAnArray
  /\ headers = [given |-> FALSE, names |-> <<>>]
  /\ csv = [text |-> <<>>, error |-> [msg |-> "", header |-> "", index |-> -1]]
  /\ cpc = "off"
CliIdle ==
  /\ cliPc = "off"
  /\ exitCode = -1
  /\ writeCalls = 0
  /\ outputFile = "untouched"
RestIdle == ParseIdle /\ CsvIdle /\ CliIdle

Init ==
  /\ fantraxPlayers \in Datasets(FantraxPool, MaxA)
  /\ ibwPlayers \in Datasets(IBWPool, MaxB)
  /\ columnMapping \in ColumnMappings
  /\ FindMatchesCalled
  /\ KeyIdle
  /\ FormatIdle
  /\ FieldIdle
  /\ FirstCall
  /\ RestIdle

\* A faulty variant of the validation step: the defaults are merged into the
\* caller's columnMapping object itself.
ValidateMergingInPlace ==
  /\ pc = "start"
  /\ LET merged == MergeMapping(columnMapping)
         inputs == ValidateInputs(fantraxPlayers, ibwPlayers)
         colsA == validateColumns(fantraxPlayers.items[1],
                                  ConfiguredColumns(merged.fantrax, FantraxRoles),
                                  "Fantrax")
         colsB == validateColumns(ibwPlayers.items[1],
                                  ConfiguredColumns(merged.ibw, IBWRoles), "IBW")
         thrown == IF inputs # NoError THEN inputs
                   ELSE IF colsA # NoError THEN colsA ELSE colsB
     IN  /\ mapping' = merged
         /\ columnMapping' = merged
         /\ error' = thrown
         /\ pc' = IF thrown = NoError THEN "index" ELSE "error"
  /\ UNCHANGED <<fantraxPlayers, ibwPlayers, fantraxPlayersMap,
                 aIdx, stats, matchingPlayers, bIdx, result, keyVars, fmtVars, fieldVars, callVars, restVars>>

\* Lines 26-41: the merge, the validation of the two datasets, then of the
\* configured columns on the first record of each.
Validate ==
  /\ pc = "start"
  /\ LET merged == MergeMapping(columnMapping)
         inputs == ValidateInputs(fantraxPlayers, ibwPlayers)
         colsA == validateColumns(fantraxPlayers.items[1],
                                  ConfiguredColumns(merged.fantrax, FantraxRoles),
                                  "Fantrax")
         colsB == validateColumns(ibwPlayers.items[1],
                                  ConfiguredColumns(merged.ibw, IBWRoles), "IBW")
         thrown == IF inputs # NoError THEN inputs
                   ELSE IF colsA # NoError THEN colsA ELSE colsB
     IN  /\ mapping' = merged
         /\ error' = thrown
         /\ pc' = IF thrown = NoError THEN "index" ELSE "error"
  /\ UNCHANGED <<fantraxPlayers, ibwPlayers, columnMapping, fantraxPlayersMap,
                 aIdx, stats, matchingPlayers, bIdx, result, keyVars, fmtVars, fieldVars, callVars, restVars>>

\* A faulty variant of the indexing step: a record without a player name
\* aborts the call.
IndexNextStrict ==
  /\ pc = "index"
  /\ aIdx < Len(fantraxPlayers.items)
  /\ LET record == fantraxPlayers.items[aIdx + 1]
     IN  IF getFieldValue(record, mapping.fantrax.player) = <<>>
         THEN /\ pc' = "error"
              /\ error' = ValidationError("Record without a player name", "Fantrax")
              /\ UNCHANGED <<fantraxPlayersMap, aIdx, restVars>>
         ELSE /\ fantraxPlayersMap' =
                   IndexRecord(fantraxPlayersMap, record, aIdx + 1, mapping.fantrax)
              /\ aIdx' = aIdx + 1
              /\ UNCHANGED <<pc, error, restVars>>
  /\ UNCHANGED <<fantraxPlayers, ibwPlayers, columnMapping, mapping,
                 stats, matchingPlayers, bIdx, result, keyVars, fmtVars, fieldVars,
                 callVars, restVars>>

\* Lines 113-130: createPlayerMaps' forEach, one record of dataset A.
IndexNext ==
  /\ pc = "index"
  /\ aIdx < Len(fantraxPlayers.items)
  /\ fantraxPlayersMap' =
       IndexRecord(fantraxPlayersMap, fantraxPlayers.items[aIdx + 1], aIdx + 1,
                   mapping.fantrax)
  /\ aIdx' = aIdx + 1
  /\ UNCHANGED <<fantraxPlayers, ibwPlayers, columnMapping, pc, mapping, error,
                 stats, matchingPlayers, bIdx, result, keyVars, fmtVars, fieldVars, callVars, restVars>>

\* Lines 132-135 and 47-54: createPlayerMaps returns, stats and
\* matchingPlayers are initialised.
StartMatching ==
  /\ pc = "index"
  /\ aIdx = Len(fantraxPlayers.items)
  /\ stats' = InitialStats(ibwPlayers)
  /\ matchingPlayers' = <<>>
  /\ pc' = "match"
  /\ UNCHANGED <<fantraxPlayers, ibwPlayers, columnMapping, mapping, error,
                 fantraxPlayersMap, aIdx, bIdx, result, keyVars, fmtVars, fieldVars, callVars, restVars>>

\* Lines 57-94: the forEach over dataset B, one record (index bIdx, from 0).
MatchNext ==
  /\ pc = "match"
  /\ bIdx < Len(ibwPlayers.items)
  /\ LET ibwPlayer == ibwPlayers.items[bIdx + 1]
         found == FindOne(fantraxPlayersMap, ibwPlayer, mapping.ibw)
     IN  /\ stats' = StatsAfter(stats, found)
         /\ matchingPlayers' =
              IF found.fantraxRef # 0
              THEN Append(matchingPlayers, NewMatch(ibwPlayer, fantraxPlayers, found, bIdx))
              ELSE matchingPlayers
  /\ bIdx' = bIdx + 1
  /\ UNCHANGED <<fantraxPlayers, ibwPlayers, columnMapping, pc, mapping, error,
                 fantraxPlayersMap, aIdx, result, keyVars, fmtVars, fieldVars, callVars, restVars>>

\* Lines 96-100: return { matches, stats, columnMapping: mapping }.
Return ==
  /\ pc = "match"
  /\ bIdx = Len(ibwPlayers.items)
  /\ result' = [returned |-> TRUE, matches |-> matchingPlayers, stats |-> stats,
                columnMapping |-> mapping]
  /\ pc' = "done"
  /\ UNCHANGED <<fantraxPlayers, ibwPlayers, columnMapping, mapping, error,
                 fantraxPlayersMap, aIdx, stats, matchingPlayers, bIdx, keyVars, fmtVars, fieldVars, callVars, restVars>>

Next == Validate \/ IndexNext \/ StartMatching \/ MatchNext \/ Return

Spec == Init /\ [][Next]_vars

\* ------------------------------------------------------------------ KeySpec
\* createMatchKey on its own: called with every name and team up to MaxLen
\* characters, the team given or omitted, and then called again on the key.
KeyInit ==
  /\ fantraxPlayers = NotAnArray
  /\ ibwPlayers = NotAnArray
  /\ columnMapping = NoMapping
  /\ FindMatchesCalled
  /\ kName \in KeyStrings
  /\ kTeam \in KeyTeams
  /\ kKey = <<>>
  /\ kAgain = <<>>
  /\ kpc = "call"
  /\ FormatIdle
  /\ FieldIdle
  /\ FirstCall
  /\ RestIdle

CallCreateMatchKey ==
  /\ kpc = "call"
  /\ kKey' = createMatchKey(kName, kTeam)
  /\ kpc' = "keyed"
  /\ UNCHANGED <<fmVars, fmtVars, fieldVars, callVars, kName, kTeam, kAgain, restVars>>

CallAgain ==
  /\ kpc = "keyed"
  /\ kAgain' = createMatchKey(kKey, TeamOmitted)
  /\ kpc' = "again"
  /\ UNCHANGED <<fmVars, fmtVars, fieldVars, callVars, kName, kTeam, kKey, restVars>>

KeyNext == CallCreateMatchKey \/ CallAgain

KeySpec == KeyInit /\ [][KeyNext]_vars

\* ----------------------------------------------------------------- EdgeSpec
\* findMatches on records with missing names and alias columns, and then
\* formatMatchResults on what it returned.
EdgeInit ==
  /\ fantraxPlayers \in EdgeDatasets(EdgeFantraxPool, MaxA)
  /\ ibwPlayers \in EdgeDatasets(EdgeIBWPool, MaxB)
  /\ columnMapping \in EdgeColumnMappings
  /\ FindMatchesCalled
  /\ KeyIdle
  /\ FormatIdle
  /\ FieldIdle
  /\ FirstCall
  /\ RestIdle

\* formatMatchResults(result.matches, result.columnMapping)
Format ==
  /\ pc = "done"
  /\ fpc = "idle"
  /\ formatted' = formatMatchResults(result.matches, result.columnMapping)
  /\ fpc' = "formatted"
  /\ UNCHANGED <<fmVars, keyVars, fieldVars, callVars, restVars>>

EdgeNext == Next \/ Format

EdgeSpec == EdgeInit /\ [][EdgeNext]_vars

\* ------------------------------------------------------------------ DupSpec
\* findMatches with the default mapping on a dataset A of up to MaxA + 1
\* records that repeat names and full keys.
DupInit ==
  /\ fantraxPlayers \in EdgeDatasets(DupFantraxPool, MaxA + 1)
  /\ ibwPlayers \in EdgeDatasets(DupIBWPool, MaxB)
  /\ columnMapping = NoMapping
  /\ FindMatchesCalled
  /\ KeyIdle
  /\ FormatIdle
  /\ FieldIdle
  /\ FirstCall
  /\ RestIdle

DupSpec == DupInit /\ [][Next]_vars

\* ---------------------------------------------------------------- AgainSpec
\* findMatches called a second time with the same three arguments, as the
\* tests do with their fixtures; the function keeps nothing between calls.
CallFindMatchesAgain ==
  /\ pc = "done"
  /\ calls = 1
  /\ previous' = [result |-> result, error |-> error]
  /\ calls' = 2
  /\ pc' = "start"
  /\ mapping' = NoMapping
  /\ error' = NoError
  /\ fantraxPlayersMap' = EmptyMaps
  /\ aIdx' = 0
  /\ stats' = ZeroStats
  /\ matchingPlayers' = <<>>
  /\ bIdx' = 0
  /\ result' = NoResult
  /\ UNCHANGED <<fantraxPlayers, ibwPlayers, columnMapping, keyVars, fmtVars,
                 fieldVars, restVars>>

AgainNext == Next \/ CallFindMatchesAgain

AgainSpec == EdgeInit /\ [][AgainNext]_vars

\* ---------------------------------------------------------------- ShapeSpec
\* findMatches on positional datasets under a mapping of column indices,
\* then on the keyed datasets that hold the same values under the keys "0",
\* "1", ..., under the same mapping.
ShapeInit ==
  /\ fantraxPlayers \in EdgeDatasets(ShapeFantraxPool, MaxA)
  /\ ibwPlayers \in EdgeDatasets(ShapeIBWPool, MaxB)
  /\ columnMapping \in ShapeColumnMappings
  /\ FindMatchesCalled
  /\ KeyIdle
  /\ FormatIdle
  /\ FieldIdle
  /\ FirstCall
  /\ RestIdle

CallOnKeyed ==
  /\ pc \in {"done", "error"}
  /\ calls = 1
  /\ previous' = [result |-> result, error |-> error]
  /\ calls' = 2
  /\ fantraxPlayers' = KeyedDataset(fantraxPlayers)
  /\ ibwPlayers' = KeyedDataset(ibwPlayers)
  /\ pc' = "start"
  /\ mapping' = NoMapping
  /\ error' = NoError
  /\ fantraxPlayersMap' = EmptyMaps
  /\ aIdx' = 0
  /\ stats' = ZeroStats
  /\ matchingPlayers' = <<>>
  /\ bIdx' = 0
  /\ result' = NoResult
  /\ UNCHANGED <<columnMapping, keyVars, fmtVars, fieldVars, restVars>>

ShapeNext == Next \/ CallOnKeyed

ShapeSpec == ShapeInit /\ [][ShapeNext]_vars

\* ---------------------------------------------------------------- FieldSpec
\* getFieldValue on its own: called once with a record and a field
\* specification.
FieldInit ==
  /\ fantraxPlayers = NotAnArray
  /\ ibwPlayers = NotAnArray
  /\ columnMapping = NoMapping
  /\ FindMatchesCalled
  /\ KeyIdle
  /\ FormatIdle
  /\ FirstCall
  /\ RestIdle
  /\ gObj \in FieldRecords
  /\ gField \in FieldSpecs
  /\ gValue = Str(<<>>)
  /\ gpc = "call"

CallGetFieldValue ==
  /\ gpc = "call"
  /\ gValue' = Str(getFieldValue(gObj, gField))
  /\ gpc' = "returned"
  /\ UNCHANGED <<fmVars, keyVars, fmtVars, callVars, gObj, gField, restVars>>

FieldNext == CallGetFieldValue

FieldSpec == FieldInit /\ [][FieldNext]_vars

\* ============================================================ parseIBWText

\* The number of lines of the texts handed to parseIBWText.
MaxLines == 3

IsDigit(c) == c \in {"0", "1", "2", "3", "4", "5", "6", "7", "8", "9"}

DigitValue(c) ==
  CASE c = "0" -> 0 [] c = "1" -> 1 [] c = "2" -> 2 [] c = "3" -> 3
    [] c = "4" -> 4 [] c = "5" -> 5 [] c = "6" -> 6 [] c = "7" -> 7
    [] c = "8" -> 8 [] c = "9" -> 9

\* parseInt(number, 10) of a string of decimal digits.
RECURSIVE ParseDigits(_)
ParseDigits(s) ==
  IF s = <<>> THEN 0
  ELSE 10 * ParseDigits(SubSeq(s, 1, Len(s) - 1)) + DigitValue(s[Len(s)])

RECURSIVE DropTrailingZeros(_)
DropTrailingZeros(s) ==
  IF s # <<>> /\ s[Len(s)] = "0" THEN DropTrailingZeros(SubSeq(s, 1, Len(s) - 1))
  ELSE s

\* The longest prefix of s made of decimal digits: what \d+ and \d* take.
RECURSIVE LeadingDigits(_)
LeadingDigits(s) ==
  IF s # <<>> /\ IsDigit(s[1]) THEN <<s[1]>> \o LeadingDigits(Tail(s))
  ELSE <<>>

\* s without its first n characters.
Drop(s, n) == SubSeq(s, n + 1, Len(s))

\* parseFloat(age) of a string digits[.digits]: the whole part and the
\* fraction digits that carry value ("25.0" and "25." are both 25).
ParseFloat(s) ==
  LET whole == LeadingDigits(s)
      rest == Drop(s, Len(whole))
      frac == IF rest # <<>> /\ rest[1] = "." THEN LeadingDigits(Tail(rest)) ELSE <<>>
  IN [whole |-> ParseDigits(whole), frac |-> DropTrailingZeros(frac)]

\* The position of the first c in s, 0 when s holds none.
RECURSIVE IndexOf(_, _)
IndexOf(s, c) ==
  IF s = <<>> THEN 0
  ELSE IF s[1] = c THEN 1
  ELSE LET rest == IndexOf(Tail(s), c) IN IF rest = 0 THEN 0 ELSE rest + 1

\* textContent.split("\n")
RECURSIVE Split(_)
Split(s) ==
  LET at == IndexOf(s, "\n")
  IN IF at = 0 THEN <<s>>
     ELSE <<SubSeq(s, 1, at - 1)>> \o Split(Drop(s, at))

\* .map((line) => line.trim())
TrimAll(ls) == [i \in 1..Len(ls) |-> Trim(ls[i])]

\* .filter((line) => line.length > 0)
NonEmpty(line) == Len(line) > 0

\* What \s*(group) captures of a segment that the group's character class
\* bounds: \s* is greedy and gives back characters only when the group would
\* otherwise be empty, and then it gives back one.
Captured(segment) ==
  IF TrimStart(segment) = <<>> THEN <<segment[Len(segment)]>>
  ELSE TrimStart(segment)

\* What (\d+\.?\d*) captures at the start of s, which starts with a digit.
CapturedAge(s) ==
  LET whole == LeadingDigits(s)
      rest == Drop(s, Len(whole))
  IN IF rest # <<>> /\ rest[1] = "."
     THEN whole \o <<".">> \o LeadingDigits(Tail(rest))
     ELSE whole

NoBasicInfo ==
  [matched |-> FALSE, number |-> <<>>, name |-> <<>>, team |-> <<>>,
   position |-> <<>>, age |-> <<>>]

\* line.match(/^(\d+)\)\s*([^-]+)-\s*([^,]+),\s*([^,]+),\s*(\d+\.?\d*)/):
\* the digits at the start, ")", a non-empty segment up to the first "-", a
\* non-empty segment up to the next ",", a non-empty segment up to the
\* next ",", then optional white space and a digit.
basicInfoMatch(line) ==
  LET number == LeadingDigits(line)
      afterNumber == Drop(line, Len(number))
      afterParen == Drop(afterNumber, 1)
      hyphen == IndexOf(afterParen, "-")
      afterHyphen == Drop(afterParen, hyphen)
      comma1 == IndexOf(afterHyphen, ",")
      afterTeam == Drop(afterHyphen, comma1)
      comma2 == IndexOf(afterTeam, ",")
      afterPosition == TrimStart(Drop(afterTeam, comma2))
  IN IF /\ number # <<>>
        /\ afterNumber # <<>>
        /\ afterNumber[1] = ")"
        /\ hyphen > 1
        /\ comma1 > 1
        /\ comma2 > 1
        /\ afterPosition # <<>>
        /\ IsDigit(afterPosition[1])
     THEN [matched |-> TRUE,
           number |-> number,
           name |-> Captured(SubSeq(afterParen, 1, hyphen - 1)),
           team |-> Captured(SubSeq(afterHyphen, 1, comma1 - 1)),
           position |-> Captured(SubSeq(afterTeam, 1, comma2 - 1)),
           age |-> CapturedAge(afterPosition)]
     ELSE NoBasicInfo

\* !name.trim() || !team.trim() || !position.trim()
MissingRequiredFields(m) ==
  \/ Trim(m.name) = <<>>
  \/ Trim(m.team) = <<>>
  \/ Trim(m.position) = <<>>

PlayerOf(m) ==
  [number |-> ParseDigits(m.number),
   name |-> Trim(m.name),
   team |-> Trim(m.team),
   position |-> Trim(m.position),
   age |-> ParseFloat(m.age)]

Skipped(index, line, reason) ==
  [line |-> index + 1, content |-> line, reason |-> reason]

\* Faulty variant of HandleLine: the newest player goes to the front.
HandleLineNewestFirst(acc, line, index) ==
  LET m == basicInfoMatch(line)
  IN IF m.matched
     THEN IF MissingRequiredFields(m)
          THEN [acc EXCEPT !.skippedLines =
                  Append(@, Skipped(index, line, "Missing required fields"))]
          ELSE [acc EXCEPT !.players = <<PlayerOf(m)>> \o @]
     ELSE [acc EXCEPT !.skippedLines =
             Append(@, Skipped(index, line, "Does not match expected IBW format"))]

\* The callback of lines.forEach, on the players and skipped lines so far.
HandleLine(acc, line, index) ==
  LET m == basicInfoMatch(line)
  IN IF m.matched
     THEN IF MissingRequiredFields(m)
          THEN [acc EXCEPT !.skippedLines =
                  Append(@, Skipped(index, line, "Missing required fields"))]
          ELSE [acc EXCEPT !.players = Append(@, PlayerOf(m))]
     ELSE [acc EXCEPT !.skippedLines =
             Append(@, Skipped(index, line, "Does not match expected IBW format"))]

InvalidTextMsg == "Invalid input: textContent must be a non-empty string"
NoContentMsg == "Invalid IBW file: No content found"
NoPlayersMsg == "No valid player data found in IBW text. Please check the input format."

\* !textContent || typeof textContent !== "string"
InvalidText(v) == v.t # "str" \/ v.s = <<>>

\* The lines the tests of the parser use, shortened.
ValidLine == <<"1", ")", " ", "A", " ", "-", " ", "T", ",", " ", "S", ",", " ", "2", ".", "5", "x">>
CompactLine == <<"2", "0", ")", "B", "-", "U", ",", "P", ",", "3">>
PaddedLine == <<" ", "3", ")", "C", " ", "D", "-", "T", ",", "S", ",", "4", ".", "0", "\t">>
HyphenatedLine == <<"4", ")", "E", "-", "F", " ", "-", " ", "T", ",", "S", ",", "5">>
ProseLine == <<"b", "a", "d">>
BlankLine == <<" ", " ">>
NoNameLine == <<"1", ")", " ", "-", " ", "T", ",", " ", "S", ",", " ", "2">>
NoTeamLine == <<"2", ")", " ", "A", " ", "-", " ", ",", " ", "S", ",", " ", "2">>
NoPositionLine == <<"3", ")", " ", "A", " ", "-", " ", "T", ",", " ", ",", " ", "2">>
NoAgeLine == <<"4", ")", " ", "A", " ", "-", " ", "T", ",", " ", "S", ",", " ", "x">>

LinePool ==
  {ValidLine, CompactLine, PaddedLine, HyphenatedLine, ProseLine, BlankLine,
   <<>>, NoNameLine, NoTeamLine, NoPositionLine, NoAgeLine}

\* ls joined by "\n".
RECURSIVE JoinLines(_)
JoinLines(ls) ==
  IF ls = <<>> THEN <<>>
  ELSE IF Len(ls) = 1 THEN ls[1]
  ELSE ls[1] \o <<"\n">> \o JoinLines(Tail(ls))

Texts ==
  {JoinLines(ls) : ls \in UNION {[1..n -> LinePool] : n \in 0..MaxLines}}

\* Strings, and what the tests pass that is no non-empty string.
TextContents ==
  {Str(text) : text \in Texts} \cup {NullV, UndefV, Num(<<"7">>), Num(<<"0">>)}

ParseInit ==
  /\ fantraxPlayers = NotAnArray
  /\ ibwPlayers = NotAnArray
  /\ columnMapping = NoMapping
  /\ FindMatchesCalled
  /\ KeyIdle
  /\ FormatIdle
  /\ FieldIdle
  /\ FirstCall
  /\ CsvIdle
  /\ CliIdle
  /\ textContent \in TextContents
  /\ lines = <<>>
  /\ lineIdx = 0
  /\ players = <<>>
  /\ skippedLines = <<>>
  /\ parseError = ""
  /\ ppc = "call"

parseKept == <<fmVars, keyVars, fmtVars, fieldVars, callVars, csvVars, cliVars>>

\* parseIBWText up to lines.forEach: the checks of the argument and of the
\* lines.
ParseCall ==
  /\ ppc = "call"
  /\ IF InvalidText(textContent)
     THEN /\ parseError' = InvalidTextMsg
          /\ ppc' = "error"
          /\ UNCHANGED lines
     ELSE LET kept == SelectSeq(TrimAll(Split(StringOf(textContent))), NonEmpty)
          IN /\ lines' = kept
             /\ IF Len(kept) = 0
                THEN parseError' = NoContentMsg /\ ppc' = "error"
                ELSE parseError' = "" /\ ppc' = "lines"
  /\ UNCHANGED <<parseKept, textContent, lineIdx, players, skippedLines>>

\* One turn of lines.forEach.
ParseLine ==
  /\ ppc = "lines"
  /\ lineIdx < Len(lines)
  /\ LET acc == HandleLine([players |-> players, skippedLines |-> skippedLines],
                           lines[lineIdx + 1], lineIdx)
     IN /\ players' = acc.players
        /\ skippedLines' = acc.skippedLines
  /\ lineIdx' = lineIdx + 1
  /\ UNCHANGED <<parseKept, textContent, lines, parseError, ppc>>

\* Faulty variant of ParseReturn: an empty array is returned as well.
ParseReturnEvenEmpty ==
  /\ ppc = "lines"
  /\ lineIdx = Len(lines)
  /\ parseError' = ""
  /\ ppc' = "returned"
  /\ UNCHANGED <<parseKept, textContent, lines, lineIdx, players, skippedLines>>

\* parseIBWText after lines.forEach: the check of players and the return.
ParseReturn ==
  /\ ppc = "lines"
  /\ lineIdx = Len(lines)
  /\ IF Len(players) = 0
     THEN parseError' = NoPlayersMsg /\ ppc' = "error"
     ELSE parseError' = "" /\ ppc' = "returned"
  /\ UNCHANGED <<parseKept, textContent, lines, lineIdx, players, skippedLines>>

ParseNext == ParseCall \/ ParseLine \/ ParseReturn

ParseSpec == ParseInit /\ [][ParseNext]_vars

\* ============================================================ objectsToCSV

\* The number of objects handed to objectsToCSV.
MaxObjects == 2

\* The second argument: an array of header names, or left out (null).
NoHeaders == [given |-> FALSE, names |-> <<>>]
Headers(names) == [given |-> TRUE, names |-> names]

\* A string of the output is a sequence of its characters; a header name is
\* one element of it, as header names are kept whole in the model.
Quote == "\""

NoCsvError == [msg |-> "", header |-> "", index |-> -1]
InvalidObjectsError ==
  [msg |-> "Invalid input: objects must be a non-empty array",
   header |-> "", index |-> -1]
\* `Missing header "${header}" in object at index ${index}`
MissingHeaderError(header, index) ==
  [msg |-> "Missing header in object at index", header |-> header,
   index |-> index]

NoCsv == [text |-> <<>>, error |-> NoCsvError]

\* header in obj
In(header, obj) == \E i \in 1..Len(obj.keys) : obj.keys[i] = header

\* headers || Object.keys(objects[0])
csvHeaders(objs, hdrs) ==
  IF hdrs.given THEN hdrs.names ELSE objs.items[1].keys

\* csvHeaders.forEach on one object: the first header the object lacks.
RECURSIVE FirstLacking(_, _)
FirstLacking(obj, names) ==
  IF names = <<>> THEN NoCsvError
  ELSE IF ~In(names[1], obj) THEN MissingHeaderError(names[1], 0)
  ELSE FirstLacking(obj, Tail(names))

\* Faulty variant of ValidateObjects: the headers are gone through first,
\* and for each header the objects.
RECURSIVE ValidateObjectsHeaderFirst(_, _, _)
ValidateObjectsHeaderFirst(items, names, index) ==
  IF names = <<>> THEN NoCsvError
  ELSE IF \E i \in 1..Len(items) : ~In(names[1], items[i])
  THEN MissingHeaderError(names[1],
         index + (CHOOSE i \in 1..Len(items) :
                    /\ ~In(names[1], items[i])
                    /\ \A j \in 1..(i - 1) : In(names[1], items[j])) - 1)
  ELSE ValidateObjectsHeaderFirst(items, Tail(names), index)

\* objects.forEach of the validation, from the object at index on: the error
\* of the first object that lacks a header.
RECURSIVE ValidateObjects(_, _, _)
ValidateObjects(items, names, index) ==
  IF items = <<>> THEN NoCsvError
  ELSE LET lacking == FirstLacking(items[1], names)
       IN IF lacking # NoCsvError
          THEN MissingHeaderError(lacking.header, index)
          ELSE ValidateObjects(Tail(items), names, index + 1)

\* obj[header] || "": null, undefined, "" and 0 give "".
OrEmpty(value) ==
  IF value.t \in {"null", "undef"} \/ value = Num(<<"0">>) THEN <<>>
  ELSE StringOf(value)

\* value.replace(/"/g, '""')
RECURSIVE DoubleQuotes(_)
DoubleQuotes(s) ==
  IF s = <<>> THEN <<>>
  ELSE IF s[1] = Quote THEN <<Quote, Quote>> \o DoubleQuotes(Tail(s))
  ELSE <<s[1]>> \o DoubleQuotes(Tail(s))

Includes(s, c) == \E i \in 1..Len(s) : s[i] = c

\* One field of a data row.
FieldOf(obj, header) ==
  LET raw == Prop(obj, header)
      value == OrEmpty(raw)
      isString == raw.t = "str" \/ value = <<>>
  IN IF isString /\ (Includes(value, ",") \/ Includes(value, Quote) \/ Includes(value, "\n"))
     THEN <<Quote>> \o DoubleQuotes(value) \o <<Quote>>
     ELSE <<Quote>> \o value \o <<Quote>>

\* parts.join(sep)
RECURSIVE Join(_, _)
Join(parts, sep) ==
  IF parts = <<>> THEN <<>>
  ELSE IF Len(parts) = 1 THEN parts[1]
  ELSE parts[1] \o <<sep>> \o Join(Tail(parts), sep)

headerRow(names) == Join([i \in 1..Len(names) |-> <<names[i]>>], ",")

dataRows(items, names) ==
  [i \in 1..Len(items) |->
     Join([h \in 1..Len(names) |-> FieldOf(items[i], names[h])], ",")]

\* [headerRow, ...dataRows].join("\n")
CsvText(items, names) ==
  Join(<<headerRow(names)>> \o dataRows(items, names), "\n")

\* The objects of the tests: plain, with values that need quoting, with
\* empty values, with 0, and with keys left out.
PlainObject ==
  Obj(<<"name", "team", "age">>, <<Str(<<"J">>), Str(<<"A">>), Num(<<"2", "5">>)>>)
SpecialObject ==
  Obj(<<"name", "team", "age">>,
      <<Str(<<"P", ",", "J">>), Str(<<Quote, "h", Quote>>), Str(<<"x", "\n", "y">>)>>)
EmptiesObject ==
  Obj(<<"name", "team", "age">>, <<Str(<<>>), UndefV, NullV>>)
ZeroObject ==
  Obj(<<"team", "name", "age">>, <<Str(<<"L">>), Str(<<"S">>), Num(<<"0">>)>>)
NameOnlyObject == Obj(<<"name">>, <<Str(<<"P">>)>>)
TeamOnlyObject == Obj(<<"team">>, <<Str(<<"A">>)>>)
EmptyObject == Obj(<<>>, <<>>)

ObjectPool ==
  {PlainObject, SpecialObject, EmptiesObject, ZeroObject, NameOnlyObject,
   TeamOnlyObject, EmptyObject}

ObjectArrays ==
  {ArrayOf(items) : items \in UNION {[1..n -> ObjectPool] : n \in 0..MaxObjects}}
    \cup {NotAnArray}

HeaderArguments ==
  {NoHeaders, Headers(<<"team", "name">>), Headers(<<"name", "team", "age">>),
   Headers(<<"age">>)}

CsvInit ==
  /\ fantraxPlayers = NotAnArray
  /\ ibwPlayers = NotAnArray
  /\ columnMapping = NoMapping
  /\ FindMatchesCalled
  /\ KeyIdle
  /\ FormatIdle
  /\ FieldIdle
  /\ FirstCall
  /\ ParseIdle
  /\ CliIdle
  /\ objects \in ObjectArrays
  /\ headers \in HeaderArguments
  /\ csv = NoCsv
  /\ cpc = "call"

csvKept == <<fmVars, keyVars, fmtVars, fieldVars, callVars, parseVars, cliVars>>

\* objectsToCSV up to "Create CSV content": the check of the argument and
\* the validation of every object against the headers.
CsvValidate ==
  /\ cpc = "call"
  /\ IF ~objects.isArray \/ Len(objects.items) = 0
     THEN csv' = [csv EXCEPT !.error = InvalidObjectsError] /\ cpc' = "error"
     ELSE LET found == ValidateObjects(objects.items, csvHeaders(objects, headers), 0)
          IN IF found # NoCsvError
             THEN csv' = [csv EXCEPT !.error = found] /\ cpc' = "error"
             ELSE csv' = csv /\ cpc' = "validated"
  /\ UNCHANGED <<csvKept, objects, headers>>

\* objectsToCSV from "Create CSV content" on.
CsvCreate ==
  /\ cpc = "validated"
  /\ csv' = [csv EXCEPT !.text = CsvText(objects.items, csvHeaders(objects, headers))]
  /\ cpc' = "returned"
  /\ UNCHANGED <<csvKept, objects, headers>>

CsvNext == CsvValidate \/ CsvCreate

CsvSpec == CsvInit /\ [][CsvNext]_vars

\* ============================================== prospect-matcher (command line)

\* What readCSV finds at a path: no file, or the records of the file.
NoFile == [found |-> FALSE, records |-> <<>>]
FileOf(records) == [found |-> TRUE, records |-> records]

\* A row read with columns: true is keyed by the header, one read with
\* columns: false is an array; csv-parse gives every value as a string.
Keyed(header, values) == Obj(header, [i \in 1..Len(values) |-> Str(values[i])])
Positional(values) == Arr([i \in 1..Len(values) |-> Str(values[i])])

CliHeader == <<"Number", "Player", "Team">>
CliFantraxRows ==
  { Keyed(CliHeader, <<<<"1">>, <<"A", "b">>, <<"X">>>>),
    Keyed(CliHeader, <<<<"2">>, <<"c">>, <<"Y">>>>) }
CliIBWRows ==
  { Positional(<<<<"a", "b">>, <<"x">>, <<"1">>>>),
    Positional(<<<<"q">>, <<"x">>, <<"2">>>>),
    Positional(<<<<"c">>, <<"F", "Y", "P", "D">>, <<"3">>>>) }

CliFantraxFiles ==
  {FileOf(rows) : rows \in UNION {[1..n -> CliFantraxRows] : n \in 0..MaxA}}
    \cup {NoFile, FileOf(<<Keyed(<<"Player">>, <<<<"A", "b">>>>)>>)}
CliIBWFiles ==
  {FileOf(rows) : rows \in UNION {[1..n -> CliIBWRows] : n \in 0..MaxB}}
    \cup {NoFile}

\* --fantrax-player-col: the default, a header name, a name no file has.
PlayerColOptions == {"1", "Player", "Name"}
\* The defaults of --fantrax-team-col and of the three IBW options, the
\* latter for files of three columns.
TeamColOption == "2"
IBWPlayerColOption == "0"
IBWTeamColOption == "1"
IBWRankColOption == "2"

\* readCSV: throws for a missing file and for a file without records.
Readable(file) == file.found /\ Len(file.records) > 0

\* value && value.toString().toLowerCase().includes('fypd')
IncludesFypd(value) ==
  LET s == ToLowerCase(StringOf(value))
  IN \E i \in 1..Len(s) :
       i + 3 <= Len(s) /\ SubSeq(s, i, i + 3) = <<"f", "y", "p", "d">>

\* !row.some(...)
NotFypd(row) == ~\E i \in 1..Len(row.vals) : IncludesFypd(row.vals[i])

NotResolved == [ok |-> FALSE, name |-> ""]
Resolved(name) == [ok |-> TRUE, name |-> name]

\* getColumnByIndex(data, index)
getColumnByIndex(data, columnIndex) ==
  LET hdrs == data[1].keys
  IN IF columnIndex < 0 \/ columnIndex >= Len(hdrs) THEN NotResolved
     ELSE Resolved(hdrs[columnIndex + 1])

\* resolveColumn(data, columnRef, description)
resolveColumn(data, columnRef) ==
  IF \E i \in 1..Len(data[1].keys) : data[1].keys[i] = columnRef
  THEN Resolved(columnRef)
  ELSE IF ParseInt(columnRef) # NaN
  THEN getColumnByIndex(data, ParseInt(columnRef).v)
  ELSE NotResolved

\* fantraxColumns.includes(name) ? name : null
IfColumn(data, name) ==
  IF \E i \in 1..Len(data[1].keys) : data[1].keys[i] = name THEN Id(name)
  ELSE NullSpec

CliColumnMapping(data, player, team) ==
  [fantrax |-> [player |-> Id(player), team |-> Id(team),
                number |-> IfColumn(data, "Number"),
                position |-> IfColumn(data, "Position"),
                age |-> IfColumn(data, "Age")],
   ibw |-> [player |-> Id(IBWPlayerColOption), team |-> Id(IBWTeamColOption),
            rank |-> Id(IBWRankColOption), number |-> Id(IBWRankColOption)]]

\* A row of formatMatchResults as the object objectsToCSV is handed; the
\* match type is kept whole, as one element of its string.
RowObject(row) ==
  Obj(OutputKeys,
      [i \in 1..Len(OutputKeys) |->
         IF OutputKeys[i] = "Match Type" THEN Str(<<StringOf(row[OutputKeys[i]])>>)
         ELSE row[OutputKeys[i]]])

CliInit ==
  /\ fantraxPlayers = NotAnArray
  /\ ibwPlayers = NotAnArray
  /\ columnMapping = NoMapping
  /\ pc = "uncalled"
  /\ mapping = NoMapping
  /\ error = NoError
  /\ fantraxPlayersMap = EmptyMaps
  /\ aIdx = 0
  /\ stats = ZeroStats
  /\ matchingPlayers = <<>>
  /\ bIdx = 0
  /\ result = NoResult
  /\ KeyIdle
  /\ FormatIdle
  /\ FieldIdle
  /\ FirstCall
  /\ ParseIdle
  /\ CsvIdle
  /\ cliPc = "read"
  /\ exitCode = -1
  /\ writeCalls = 0
  /\ outputFile = "untouched"

fmLocals ==
  <<mapping, error, fantraxPlayersMap, aIdx, stats, matchingPlayers, bIdx, result>>
cliKept == <<keyVars, fieldVars, callVars, parseVars>>

\* process.exit(code)
Exit(code) == cliPc' = "exited" /\ exitCode' = code

\* "Reading CSV files..." and the FYPD filter; a throw of readCSV is caught
\* and ends the process.
CliRead ==
  /\ cliPc = "read"
  /\ \E fantraxFile \in CliFantraxFiles, ibwFile \in CliIBWFiles :
       IF Readable(fantraxFile) /\ Readable(ibwFile)
       THEN /\ fantraxPlayers' = ArrayOf(fantraxFile.records)
            /\ ibwPlayers' = ArrayOf(SelectSeq(ibwFile.records, NotFypd))
            /\ cliPc' = "resolve"
            /\ UNCHANGED exitCode
       ELSE /\ Exit(1)
            /\ UNCHANGED <<fantraxPlayers, ibwPlayers>>
  /\ UNCHANGED <<columnMapping, pc, fmLocals, fmtVars, csvVars, cliKept,
                 writeCalls, outputFile>>

\* "Resolve column mappings" and the call of findMatches; a throw of
\* resolveColumn is caught and ends the process.
CliResolve ==
  /\ cliPc = "resolve"
  /\ \E playerCol \in PlayerColOptions :
       LET player == resolveColumn(fantraxPlayers.items, playerCol)
           team == resolveColumn(fantraxPlayers.items, TeamColOption)
       IN IF player.ok /\ team.ok
          THEN /\ columnMapping' =
                    CliColumnMapping(fantraxPlayers.items, player.name, team.name)
               /\ pc' = "start"
               /\ cliPc' = "matching"
               /\ UNCHANGED exitCode
          ELSE /\ Exit(1)
               /\ UNCHANGED <<columnMapping, pc>>
  /\ UNCHANGED <<fantraxPlayers, ibwPlayers, fmLocals, fmtVars, csvVars, cliKept,
                 writeCalls, outputFile>>

\* Faulty variant of CliCheck: the output file is written before the number
\* of matches is looked at.
CliCheckAfterWriting ==
  /\ cliPc = "matching"
  /\ pc = "done"
  /\ writeCalls' = writeCalls + 1
  /\ outputFile' = "written"
  /\ IF result.stats.totalMatches = 0
     THEN Exit(1)
     ELSE cliPc' = "generate" /\ UNCHANGED exitCode
  /\ UNCHANGED <<fmVars, fmtVars, csvVars, cliKept>>

\* findMatches has returned: "Match Results:" and the exit for no matches.
CliCheck ==
  /\ cliPc = "matching"
  /\ pc = "done"
  /\ IF result.stats.totalMatches = 0
     THEN Exit(1)
     ELSE cliPc' = "generate" /\ UNCHANGED exitCode
  /\ UNCHANGED <<fmVars, fmtVars, csvVars, cliKept, writeCalls, outputFile>>

\* findMatches has thrown: the catch block.
CliCatch ==
  /\ cliPc = "matching"
  /\ pc = "error"
  /\ Exit(1)
  /\ UNCHANGED <<fmVars, fmtVars, csvVars, cliKept, writeCalls, outputFile>>

\* "Generating output...": formatMatchResults and objectsToCSV; a throw of
\* objectsToCSV is caught and ends the process.
CliGenerate ==
  /\ cliPc = "generate"
  /\ LET rows == formatMatchResults(result.matches, columnMapping)
         items == [i \in 1..Len(rows) |-> RowObject(rows[i])]
         thrown == IF Len(items) = 0 THEN InvalidObjectsError
                   ELSE ValidateObjects(items, csvHeaders(ArrayOf(items), NoHeaders), 0)
     IN /\ formatted' = rows
        /\ fpc' = "formatted"
        /\ objects' = ArrayOf(items)
        /\ headers' = NoHeaders
        /\ IF thrown # NoCsvError
           THEN /\ csv' = [csv EXCEPT !.error = thrown]
                /\ cpc' = "error"
                /\ Exit(1)
           ELSE /\ csv' = [csv EXCEPT !.text =
                             CsvText(items, csvHeaders(ArrayOf(items), NoHeaders))]
                /\ cpc' = "returned"
                /\ cliPc' = "write"
                /\ UNCHANGED exitCode
  /\ UNCHANGED <<fmVars, cliKept, writeCalls, outputFile>>

\* writeCSV(options.output, csvContent): the file is written and the action
\* ends, or fs.writeFileSync throws, with the file created or not, and the
\* catch block ends the process.
CliWrite ==
  /\ cliPc = "write"
  /\ writeCalls' = writeCalls + 1
  /\ \/ /\ outputFile' = "written"
        /\ cliPc' = "finished"
        /\ exitCode' = 0
     \/ /\ outputFile' \in {outputFile, "written"}
        /\ Exit(1)
  /\ UNCHANGED <<fmVars, fmtVars, csvVars, cliKept>>

CliNext ==
  CliRead \/ CliResolve \/ Next \/ CliCheck \/ CliCatch \/ CliGenerate \/ CliWrite

CliSpec == CliInit /\ [][CliNext]_vars

\* =================================================================== claims
\* Helpers of the claims' formulas.
BadDataset(d) == ~d.isArray \/ Len(d.items) = 0
InputsValid == ~BadDataset(fantraxPlayers) /\ ~BadDataset(ibwPlayers)
Validated == pc \in {"index", "match", "done"}
Indexed == pc \in {"match", "done"}

\* The identifier specification resolves to a present, non-null value on the
\* record: some candidate does.
Resolves(record, fieldSpec) ==
  \E i \in 1..Len(fieldSpec.ids) : Present(Lookup(record, fieldSpec.ids[i]))

\* The merged mapping of a dataset, whatever the position of the call.
MergedFantrax == MergeMapping(columnMapping).fantrax
MergedIBW == MergeMapping(columnMapping).ibw

\* Every role of both datasets holds a single identifier or null.
SingleIdentifiersOnly ==
  /\ \A r \in DOMAIN MergedFantrax : MergedFantrax[r].k # "list"
  /\ \A r \in DOMAIN MergedIBW : MergedIBW[r].k # "list"

SchemaErrors ==
  {"Missing required columns", "Missing required columns: column index not found"}

\* ---- C1
\* C1: after each record of dataset B has been processed, and in the
\* statistics returned, totalMatches = exactMatches + nameOnlyMatches.
C1_TotalIsExactPlusNameOnly ==
  /\ stats.totalMatches = stats.exactMatches + stats.nameOnlyMatches
  /\ result.returned =>
       result.stats.totalMatches =
         result.stats.exactMatches + result.stats.nameOnlyMatches

C1_Witness ==
  /\ result.returned
  /\ result.stats.exactMatches >= 1
  /\ result.stats.nameOnlyMatches >= 1

\* ---- C2
\* The matches recorded for the record of dataset B at index j.
MatchesOf(j) ==
  {k \in 1..Len(matchingPlayers) : matchingPlayers[k].ibwIndex = j}

\* C2: a processed record of dataset B with a non-empty player name is matched
\* 'exact', to the record the exact index holds under its full key, whenever
\* that key is in the exact index (whatever the name-only index holds);
\* 'name-only' only when the full key is absent and the name-only key is
\* present; and is not matched otherwise.
C2_ExactBeforeNameOnly ==
  Indexed =>
    \A j \in 0..(bIdx - 1) :
      LET record == ibwPlayers.items[j + 1]
          playerName == getFieldValue(record, mapping.ibw.player)
          fullKey ==
            createMatchKey(playerName, TeamArg(getFieldValue(record, mapping.ibw.team)))
          nameOnlyKey == createMatchKey(playerName, TeamOmitted)
          exact == fantraxPlayersMap.exact
          nameOnly == fantraxPlayersMap.nameOnly
      IN  playerName # <<>> =>
            IF fullKey \in DOMAIN exact
            THEN /\ Cardinality(MatchesOf(j)) = 1
                 /\ \A k \in MatchesOf(j) :
                      /\ matchingPlayers[k].matchType = "exact"
                      /\ matchingPlayers[k].fantraxRef = exact[fullKey]
            ELSE IF nameOnlyKey \in DOMAIN nameOnly
                 THEN /\ Cardinality(MatchesOf(j)) = 1
                      /\ \A k \in MatchesOf(j) :
                           /\ matchingPlayers[k].matchType = "name-only"
                           /\ matchingPlayers[k].fantraxRef = nameOnly[nameOnlyKey]
                 ELSE MatchesOf(j) = {}

\* An exact match to a record other than the one the name-only index holds
\* for the same name, and a name-only match, in one run.
C2_Witness ==
  /\ pc = "done"
  /\ \E k \in 1..Len(matchingPlayers) :
       LET m == matchingPlayers[k]
           nameOnlyKey ==
             createMatchKey(getFieldValue(m.ibwPlayer, mapping.ibw.player), TeamOmitted)
       IN  /\ m.matchType = "exact"
           /\ nameOnlyKey \in DOMAIN fantraxPlayersMap.nameOnly
           /\ fantraxPlayersMap.nameOnly[nameOnlyKey] # m.fantraxRef
  /\ \E k \in 1..Len(matchingPlayers) : matchingPlayers[k].matchType = "name-only"

\* ---- C3
StrictlyIncreasingIndex(matches) ==
  \A k \in 1..(Len(matches) - 1) : matches[k].ibwIndex < matches[k + 1].ibwIndex

\* C3: the matches, while they are collected and as returned, have strictly
\* increasing ibwIndex: the order of dataset B, no record matched twice.
C3_MatchesInDatasetBOrder ==
  /\ StrictlyIncreasingIndex(matchingPlayers)
  /\ StrictlyIncreasingIndex(result.matches)
  /\ \A k \in 1..Len(matchingPlayers) :
       /\ matchingPlayers[k].ibwIndex \in 0..(bIdx - 1)
       /\ matchingPlayers[k].ibwPlayer = ibwPlayers.items[matchingPlayers[k].ibwIndex + 1]

C3_Witness ==
  /\ result.returned
  /\ Len(result.matches) >= 2
  /\ result.matches[1].ibwIndex = 0
  /\ result.matches[2].ibwIndex = 1

\* ---- C4
\* C4: with dataset A or B empty or not an array, findMatches throws the
\* validation error that names the side (A's first), no index has been built,
\* no record matched and nothing is returned.
C4_InvalidDatasetRejected ==
  (BadDataset(fantraxPlayers) \/ BadDataset(ibwPlayers)) =>
    /\ pc \in {"start", "error"}
    /\ fantraxPlayersMap = EmptyMaps
    /\ aIdx = 0
    /\ bIdx = 0
    /\ matchingPlayers = <<>>
    /\ ~result.returned
    /\ pc = "error" =>
         error.msg = IF BadDataset(fantraxPlayers)
                     THEN "Fantrax players must be a non-empty array"
                     ELSE "IBW players must be a non-empty array"

\* Dataset B is null while dataset A is fine, and the error has been thrown.
C4_Witness ==
  /\ pc = "error"
  /\ ~BadDataset(fantraxPlayers)
  /\ ~ibwPlayers.isArray
  /\ error.msg = "IBW players must be a non-empty array"

\* ---- C5
\* C5: when the (single) player identifier does not resolve to a present,
\* non-null value on the first record of dataset A or of dataset B, keyed or
\* positional, findMatches ends in a schema error and never goes on to
\* indexing and matching.
C5_UnresolvedPlayerRejected ==
  (/\ InputsValid
   /\ SingleIdentifiersOnly
   /\ pc # "start"
   /\ \/ ~Resolves(fantraxPlayers.items[1], MergedFantrax.player)
      \/ ~Resolves(ibwPlayers.items[1], MergedIBW.player))
  => (pc = "error" /\ error.msg \in SchemaErrors)

\* ---- C6
KeyedFirstRecords ==
  /\ ~fantraxPlayers.items[1].isArray
  /\ ~ibwPlayers.items[1].isArray

\* Some role's identifier is not null and is not a key of the first record.
ConfiguredButAbsent(record, roleMapping, roles) ==
  \E r \in roles :
    /\ roleMapping[r].k = "id"
    /\ \A i \in 1..Len(record.keys) : record.keys[i] # roleMapping[r].ids[1]

\* C6 as claimed: with the player identifier resolving on the first record of
\* each dataset, findMatches does not fail, whatever optional identifiers are
\* absent from those records.
C6_OptionalRolesNeverFail ==
  (/\ InputsValid
   /\ SingleIdentifiersOnly
   /\ KeyedFirstRecords
   /\ Resolves(fantraxPlayers.items[1], MergedFantrax.player)
   /\ Resolves(ibwPlayers.items[1], MergedIBW.player)
   /\ pc # "start")
  => pc # "error"

\* The record has a column that is itself named "null".
HasNullColumn(record) ==
  \E i \in 1..Len(record.keys) : record.keys[i] = "null"

\* C6 as amended: on keyed first records and single identifiers, findMatches
\* ends in failure with the missing-columns error exactly when some role (required or
\* optional) holds a non-null identifier that is not a key of the first
\* record of its dataset; a role set to null never fails, and resolves to the
\* empty string on every record that has no column named "null".
C6_EveryConfiguredRoleRequired ==
  (/\ pc \in {"error", "done"}
   /\ InputsValid
   /\ SingleIdentifiersOnly
   /\ KeyedFirstRecords)
  => /\ (pc = "error") <=>
          \/ ConfiguredButAbsent(fantraxPlayers.items[1], MergedFantrax,
                                 {"team", "number", "position", "age", "player"})
          \/ ConfiguredButAbsent(ibwPlayers.items[1], MergedIBW,
                                 {"team", "rank", "number", "player"})
     /\ pc = "error" => error.msg = "Missing required columns"
     /\ pc = "done" =>
          /\ \A r \in DOMAIN mapping.fantrax : \A i \in 1..Len(fantraxPlayers.items) :
               (mapping.fantrax[r].k = "null" /\ ~HasNullColumn(fantraxPlayers.items[i]))
                 => getFieldValue(fantraxPlayers.items[i], mapping.fantrax[r]) = <<>>
          /\ \A r \in DOMAIN mapping.ibw : \A i \in 1..Len(ibwPlayers.items) :
               (mapping.ibw[r].k = "null" /\ ~HasNullColumn(ibwPlayers.items[i]))
                 => getFieldValue(ibwPlayers.items[i], mapping.ibw[r]) = <<>>

\* The first record of dataset A has the Player column only, the optional
\* roles are null, and findMatches has returned.
C6_Witness ==
  /\ pc = "done"
  /\ fantraxPlayers.items[1].keys = <<"Player">>
  /\ mapping.fantrax.team = NullSpec
  /\ mapping.fantrax.age = NullSpec
  /\ Len(result.matches) >= 1

\* ---- C7
\* C7: a mapping whose player role is a list of candidates, one of which
\* resolves on the (keyed) first record while every other configured column is
\* there, passes validation.
C7_CandidateListAccepted ==
  (/\ InputsValid
   /\ KeyedFirstRecords
   /\ MergedFantrax.player.k = "list"
   /\ Resolves(fantraxPlayers.items[1], MergedFantrax.player)
   /\ ~ConfiguredButAbsent(fantraxPlayers.items[1], MergedFantrax,
                           {"team", "number", "position", "age"})
   /\ ~ConfiguredButAbsent(ibwPlayers.items[1], MergedIBW,
                           {"team", "rank", "number", "player"})
   /\ pc # "start")
  => pc # "error"

\* ---- C8
\* C8: a record of dataset A whose team field is a blank string is indexed
\* under the exact key 'name_'.
C8_BlankTeamKeepsSeparator ==
  pc \in {"index", "match", "done"} =>
    \A i \in 1..aIdx :
      LET record == fantraxPlayers.items[i]
          playerName == getFieldValue(record, mapping.fantrax.player)
      IN  (/\ playerName # <<>>
           /\ mapping.fantrax.team.k = "id"
           /\ Lookup(record, mapping.fantrax.team.ids[1]) = Str(<<>>))
          => (ToLowerCase(playerName) \o <<"_">>) \in DOMAIN fantraxPlayersMap.exact

\* ---- C9
\* The characters of s from its first to its last non-blank one, lowercased.
NormalizedRef(s) ==
  LET nonBlank == {i \in 1..Len(s) : ~IsSpace(s[i])}
  IN  IF nonBlank = {} THEN <<>>
      ELSE LET lo == CHOOSE i \in nonBlank : \A j \in nonBlank : i <= j
               hi == CHOOSE i \in nonBlank : \A j \in nonBlank : j <= i
           IN  [k \in 1..(hi - lo + 1) |-> ToLowerChar(s[lo + k - 1])]

\* s and t differ in letter case and in leading and trailing blanks only:
\* each is blanks, a core, blanks, and the cores agree up to letter case.
SameUpToCaseAndBlanks(s, t) ==
  \E i1 \in 1..(Len(s) + 1), i2 \in 1..(Len(t) + 1) :
    \E n \in 0..Len(s) :
      /\ i1 + n - 1 <= Len(s)
      /\ i2 + n - 1 <= Len(t)
      /\ \A k \in 1..Len(s) : (k < i1 \/ k > i1 + n - 1) => IsSpace(s[k])
      /\ \A k \in 1..Len(t) : (k < i2 \/ k > i2 + n - 1) => IsSpace(t[k])
      /\ \A k \in 0..(n - 1) : ToLowerChar(s[i1 + k]) = ToLowerChar(t[i2 + k])

\* C9: the key of a name and a non-empty team is the normalised name, '_' and
\* the normalised team; with the team omitted it is the normalised name alone;
\* and a name or a team that differs only in letter case or surrounding blanks
\* gives the same key.
C9_KeyIgnoresCaseAndBlanks ==
  kpc = "keyed" =>
    /\ (kTeam.given /\ kTeam.s # <<>>) =>
         kKey = NormalizedRef(kName) \o <<"_">> \o NormalizedRef(kTeam.s)
    /\ ~kTeam.given => kKey = NormalizedRef(kName)
    /\ \A name2 \in KeyStrings :
         SameUpToCaseAndBlanks(kName, name2) => createMatchKey(name2, kTeam) = kKey
    /\ (kTeam.given /\ kTeam.s # <<>>) =>
         \A team2 \in KeyStrings \ {<<>>} :
           SameUpToCaseAndBlanks(kTeam.s, team2)
             => createMatchKey(kName, TeamArg(team2)) = kKey

C9_Witness ==
  /\ kpc = "keyed"
  /\ kName = <<" ", "A">>
  /\ kTeam = TeamArg(<<"A", " ">>)
  /\ kKey = <<"a", "_", "a">>

\* ---- C10
\* C10: createMatchKey, team omitted, applied to a key createMatchKey
\* returned (for a name and a team, or for a name alone) returns that key.
C10_KeyIsIdempotent ==
  kpc = "again" => kAgain = kKey

C10_Witness ==
  /\ kpc = "again"
  /\ kName = <<"A", " ">>
  /\ kTeam = TeamArg(<<" ", "A">>)
  /\ kKey = <<"a", "_", "a">>
  /\ kAgain = kKey

\* The value a record holds for the player role, and whether it gives no
\* name: missing, null, empty or whitespace only.
PlayerValue(record, roleMapping) == Lookup(record, roleMapping.player.ids[1])
NoPlayerName(record, roleMapping) ==
  \/ ~Present(PlayerValue(record, roleMapping))
  \/ \A i \in 1..Len(PlayerValue(record, roleMapping).s) :
       IsSpace(PlayerValue(record, roleMapping).s[i])
NamelessA(i) == NoPlayerName(fantraxPlayers.items[i], mapping.fantrax)
NamelessB(j) == NoPlayerName(ibwPlayers.items[j], mapping.ibw)

\* C11: every key of exact and of nameOnly refers to a record of dataset A
\* whose player name is non-empty after trimming; records whose player is
\* missing, null, empty or whitespace only add nothing to either index, and
\* no match returns such a record.
C11_IndexHoldsNamedRecordsOnly ==
  Validated =>
    /\ \A k \in DOMAIN fantraxPlayersMap.exact :
         /\ fantraxPlayersMap.exact[k] \in 1..aIdx
         /\ ~NamelessA(fantraxPlayersMap.exact[k])
    /\ \A k \in DOMAIN fantraxPlayersMap.nameOnly :
         /\ fantraxPlayersMap.nameOnly[k] \in 1..aIdx
         /\ ~NamelessA(fantraxPlayersMap.nameOnly[k])
    /\ (\A i \in 1..aIdx : NamelessA(i)) => fantraxPlayersMap = EmptyMaps
    /\ \A m \in 1..Len(matchingPlayers) :
         ~NamelessA(matchingPlayers[m].fantraxRef)

\* findMatches returned a match from a dataset A that holds a record without
\* a name next to a named one.
C11_Witness ==
  /\ pc = "done"
  /\ \E i \in 1..Len(fantraxPlayers.items) : NamelessA(i)
  /\ fantraxPlayersMap # EmptyMaps
  /\ result.matches # <<>>

\* What the records of a sequence are matched to, in order: the record, the
\* matched record of dataset A and the match type, for the records matched.
RECURSIVE MatchedPairs(_, _, _)
MatchedPairs(maps, items, ibwMapping) ==
  IF items = <<>> THEN <<>>
  ELSE LET found == FindOne(maps, Head(items), ibwMapping)
       IN  (IF found.fantraxRef # 0
            THEN <<[ibwPlayer |-> Head(items), fantraxRef |-> found.fantraxRef,
                    matchType |-> found.matchType]>>
            ELSE <<>>)
           \o MatchedPairs(maps, Tail(items), ibwMapping)

\* The matches findMatches returned, without their position in dataset B.
ReturnedPairs ==
  [m \in 1..Len(result.matches) |->
     [ibwPlayer |-> result.matches[m].ibwPlayer,
      fantraxRef |-> result.matches[m].fantraxRef,
      matchType |-> result.matches[m].matchType]]

CountType(pairs, type) == Len(SelectSeq(pairs, LAMBDA q : q.matchType = type))

\* Dataset B without its records that hold no player name.
NamedIBW ==
  SelectSeq(ibwPlayers.items, LAMBDA r : ~NoPlayerName(r, mapping.ibw))

\* C12: a record of dataset B without a player name produces no match, and
\* the counters and the matches of the other records (their record of B,
\* matched record of A and match type) are those of dataset B without the
\* nameless records; stats.totalIBWPlayers is the length of dataset B all
\* through the matching.
C12_NamelessIBWRecordIsInert ==
  /\ pc \in {"match", "done"} =>
       /\ stats.totalIBWPlayers = Len(ibwPlayers.items)
       /\ \A m \in 1..Len(matchingPlayers) :
            ~NamelessB(matchingPlayers[m].ibwIndex + 1)
  /\ pc = "done" =>
       LET pairs == MatchedPairs(fantraxPlayersMap, NamedIBW, mapping.ibw)
       IN  /\ ReturnedPairs = pairs
           /\ result.stats.exactMatches = CountType(pairs, "exact")
           /\ result.stats.nameOnlyMatches = CountType(pairs, "name-only")
           /\ result.stats.totalMatches = Len(pairs)
           /\ result.stats.totalIBWPlayers = Len(ibwPlayers.items)

\* findMatches returned a match for a dataset B whose first record holds no
\* player name.
C12_Witness ==
  /\ pc = "done"
  /\ Len(ibwPlayers.items) = 2
  /\ NamelessB(1)
  /\ result.stats.totalMatches = 1
  /\ result.stats.totalIBWPlayers = 2

\* The normalized (trimmed, lowercased) player name and team of a record.
NormalizedName(record, roleMapping) ==
  ToLowerCase(getFieldValue(record, roleMapping.player))
NormalizedTeam(record, roleMapping) ==
  ToLowerCase(getFieldValue(record, roleMapping.team))

\* No record of dataset B has the normalized player name of a record of
\* dataset A.
NoSharedNames ==
  \A i \in 1..Len(fantraxPlayers.items), j \in 1..Len(ibwPlayers.items) :
    NormalizedName(fantraxPlayers.items[i], mapping.fantrax)
      # NormalizedName(ibwPlayers.items[j], mapping.ibw)

\* C13: for non-empty datasets A and B that share no normalized player
\* name, findMatches returns totalMatches, exactMatches and nameOnlyMatches
\* 0 and no match, whatever the teams are.
C13_NoSharedNamesNoMatches ==
  (pc = "done" /\ NoSharedNames) =>
    /\ result.stats.totalMatches = 0
    /\ result.stats.exactMatches = 0
    /\ result.stats.nameOnlyMatches = 0
    /\ result.matches = <<>>

\* C14: in every match of type 'exact' the normalized player name of the
\* record of dataset B equals that of the matched record of dataset A, and
\* so do the normalized teams.
C14_ExactAgreesOnNameAndTeam ==
  \A m \in 1..Len(matchingPlayers) :
    matchingPlayers[m].matchType = "exact" =>
      /\ NormalizedName(matchingPlayers[m].ibwPlayer, mapping.ibw)
           = NormalizedName(matchingPlayers[m].fantraxData, mapping.fantrax)
      /\ NormalizedTeam(matchingPlayers[m].ibwPlayer, mapping.ibw)
           = NormalizedTeam(matchingPlayers[m].fantraxData, mapping.fantrax)

\* Every record of dataset B has the normalized name and team of some record
\* of dataset A.
AllIBWAgree ==
  \A j \in 1..Len(ibwPlayers.items) :
    \E i \in 1..Len(fantraxPlayers.items) :
      /\ NormalizedName(ibwPlayers.items[j], mapping.ibw)
           = NormalizedName(fantraxPlayers.items[i], mapping.fantrax)
      /\ NormalizedTeam(ibwPlayers.items[j], mapping.ibw)
           = NormalizedTeam(fantraxPlayers.items[i], mapping.fantrax)

\* The number of records of dataset B with a non-empty player name.
NamedIBWCount ==
  Cardinality({j \in 1..Len(ibwPlayers.items) :
                 NormalizedName(ibwPlayers.items[j], mapping.ibw) # <<>>})

\* C15: when every record of dataset B agrees with some record of dataset A
\* on normalized name and team, every record of B with a non-empty name is
\* matched 'exact': exactMatches is the number of such records and
\* nameOnlyMatches is 0.
C15_AllAgreeAllExact ==
  (pc = "done" /\ AllIBWAgree) =>
    /\ result.stats.exactMatches = NamedIBWCount
    /\ result.stats.nameOnlyMatches = 0
    /\ Len(result.matches) = NamedIBWCount
    /\ \A m \in 1..Len(result.matches) : result.matches[m].matchType = "exact"

\* findMatches returned for a dataset B of two named records, each agreeing
\* with a record of a dataset A in which the name occurs twice.
C15_Witness ==
  /\ pc = "done"
  /\ AllIBWAgree
  /\ Len(fantraxPlayers.items) = 2
  /\ NormalizedName(fantraxPlayers.items[1], mapping.fantrax)
       = NormalizedName(fantraxPlayers.items[2], mapping.fantrax)
  /\ NormalizedTeam(fantraxPlayers.items[1], mapping.fantrax)
       # NormalizedTeam(fantraxPlayers.items[2], mapping.fantrax)
  /\ NamedIBWCount = 2
  /\ result.stats.exactMatches = 2

\* A keyed record with the value of one of its columns replaced.
WithColumn(record, name, value) ==
  [record EXCEPT !.vals = [i \in 1..Len(record.vals) |->
                             IF record.keys[i] = name THEN value ELSE record.vals[i]]]

\* A team that no record of the pools of dataset A holds, and dataset B with
\* the team of every record replaced by it.
OtherTeam == Str(<<"Z">>)
IBWWithOtherTeam ==
  [j \in 1..Len(ibwPlayers.items) |->
     WithColumn(ibwPlayers.items[j], mapping.ibw.team.ids[1], OtherTeam)]

\* Dataset B is made of keyed records holding the team column, the new team
\* is the team of no record of dataset A, and no record of B with the new
\* team has a full key that the exact index holds.
TeamReplaceable ==
  /\ mapping.ibw.team.k = "id"
  /\ \A j \in 1..Len(ibwPlayers.items) :
       /\ ~ibwPlayers.items[j].isArray
       /\ \E c \in 1..Len(ibwPlayers.items[j].keys) :
            ibwPlayers.items[j].keys[c] = mapping.ibw.team.ids[1]
  /\ \A i \in 1..Len(fantraxPlayers.items) :
       NormalizedTeam(fantraxPlayers.items[i], mapping.fantrax)
         # ToLowerCase(Trim(StringOf(OtherTeam)))
  /\ \A j \in 1..Len(ibwPlayers.items) :
       ~MapHas(fantraxPlayersMap.exact,
               createMatchKey(getFieldValue(IBWWithOtherTeam[j], mapping.ibw.player),
                              TeamArg(getFieldValue(IBWWithOtherTeam[j],
                                                    mapping.ibw.team))))

\* C16: replacing the team of every record of dataset B by a value that is
\* the team of no record of dataset A, and that creates no key collision,
\* leaves no 'exact' match and makes nameOnlyMatches the former
\* totalMatches.
C16_OtherTeamShiftsExactToNameOnly ==
  (pc = "done" /\ TeamReplaceable) =>
    LET pairs == MatchedPairs(fantraxPlayersMap, IBWWithOtherTeam, mapping.ibw)
    IN  /\ CountType(pairs, "exact") = 0
        /\ CountType(pairs, "name-only") = result.stats.totalMatches
        /\ Len(pairs) = result.stats.totalMatches

\* The trimmed string of the first candidate whose value in the record is
\* present and non-null, a single identifier counting as a list of one, and
\* the empty string for a null specification.
FirstResolvedOrEmpty(obj, fieldSpec) ==
  IF fieldSpec.k = "null" THEN <<>> ELSE FirstPresent(obj, fieldSpec.ids)

\* C17: getFieldValue returns the trimmed string of the first candidate that
\* resolves to a present, non-null value, and the empty string when none
\* resolves or when the specification is null.
C17_FieldValueOrEmpty ==
  gpc = "returned" =>
    /\ gValue.t = "str"
    /\ gValue.s = Trim(gValue.s)
    /\ gValue.s = FirstResolvedOrEmpty(gObj, gField)

\* The keys of the output rows that are read from the record of dataset B.
IBWOutputKeys == {"IBW Rank", "IBW Player", "IBW Team"}
FieldOutputKeys == {OutputKeys[i] : i \in 1..Len(OutputKeys)} \ {"Match Type"}

\* The role of the mapping an output key shows, and the columns the key is
\* read from: the role's identifier, then the aliases of the number and the
\* position, and Age for a null age.
OutputRole(key, cm) ==
  CASE key = "IBW Rank" -> cm.ibw.rank
    [] key = "IBW Player" -> cm.ibw.player
    [] key = "IBW Team" -> cm.ibw.team
    [] key = "Fantrax Number" -> cm.fantrax.number
    [] key = "Fantrax Player" -> cm.fantrax.player
    [] key = "Fantrax Team" -> cm.fantrax.team
    [] key = "Fantrax Position" -> cm.fantrax.position
    [] key = "Fantrax Age" -> cm.fantrax.age
OutputColumns(key, cm) ==
  OutputRole(key, cm).ids
    \o (CASE key = "Fantrax Number" -> NumberAliases
          [] key = "Fantrax Position" -> PositionAliases
          [] key = "Fantrax Age" /\ cm.fantrax.age.k = "null" -> <<"Age">>
          [] OTHER -> <<>>)
OutputRecord(key, match) ==
  IF key \in IBWOutputKeys THEN match.ibwPlayer ELSE match.fantraxData

\* The record holds a present, non-null value in none of the columns.
HoldsNone(record, names) ==
  \A i \in 1..Len(names) : ~Present(Lookup(record, names[i]))

\* Every output row has the nine keys and a string under each.
NineStringFields ==
  /\ Len(formatted) = Len(result.matches)
  /\ \A m \in 1..Len(formatted) :
       /\ DOMAIN formatted[m] = {OutputKeys[i] : i \in 1..Len(OutputKeys)}
       /\ \A key \in DOMAIN formatted[m] : formatted[m][key].t = "str"

\* C18: every row formatMatchResults returns has the same nine keys and a
\* string under each, and a field that is missing, null or unmapped (its
\* role is null) is the empty string.
C18_UnmappedFieldIsEmpty ==
  fpc = "formatted" =>
    /\ NineStringFields
    /\ \A m \in 1..Len(formatted), key \in FieldOutputKeys :
         \/ OutputRole(key, result.columnMapping).k = "null"
         \/ HoldsNone(OutputRecord(key, result.matches[m]),
                      OutputRole(key, result.columnMapping).ids)
         => formatted[m][key] = Str(<<>>)

\* C18 as amended: every row has the same nine keys and a string under
\* each; a field is the empty string when the record (one with no column
\* named null) holds a non-null value in none of the columns the field is
\* read from, which for a null number, position or age role are still the
\* alias columns Number, #, ID / Position, Pos / Age.
C18_NineStringFieldsEmptyWhenAbsent ==
  fpc = "formatted" =>
    /\ NineStringFields
    /\ \A m \in 1..Len(formatted), key \in FieldOutputKeys :
         /\ ~HasNullColumn(OutputRecord(key, result.matches[m]))
         /\ HoldsNone(OutputRecord(key, result.matches[m]),
                      OutputColumns(key, result.columnMapping))
         => formatted[m][key] = Str(<<>>)
    /\ \A m \in 1..Len(formatted) :
         formatted[m]["Match Type"] = Str(result.matches[m].matchType)

\* A row was formatted from a matched record whose Age is null, under a
\* mapping whose rank role is null: both fields are empty strings.
C18_Witness ==
  /\ fpc = "formatted"
  /\ \E m \in 1..Len(formatted) :
       /\ Prop(result.matches[m].fantraxData, "Age") = NullV
       /\ result.columnMapping.ibw.rank.k = "null"
       /\ formatted[m]["Fantrax Age"] = Str(<<>>)
       /\ formatted[m]["IBW Rank"] = Str(<<>>)
       /\ formatted[m]["Fantrax Player"] # Str(<<>>)

\* The output keys whose role has built-in aliases.
AliasedOutputKeys == {"Fantrax Number", "Fantrax Position"}

\* C19: the aliases of the number and of the position are consulted only
\* when the role is null in the mapping; when the role holds an identifier
\* for which the matched record has no value, the output field is the empty
\* string.
C19_AliasesOnlyForNullRole ==
  fpc = "formatted" =>
    \A m \in 1..Len(formatted), key \in AliasedOutputKeys :
      /\ OutputRole(key, result.columnMapping).k = "id"
      /\ HoldsNone(result.matches[m].fantraxData,
                   OutputRole(key, result.columnMapping).ids)
      => formatted[m][key] = Str(<<>>)

\* C19 as amended: the aliases are consulted whenever the role is null in
\* the mapping or the matched record holds no non-null value for the role's
\* identifier: the output field is the trimmed value of the first of the
\* identifier and the aliases, in this order, that the record holds, and the
\* empty string when it holds none.
C19_AliasesWhenPrimaryUnresolved ==
  fpc = "formatted" =>
    \A m \in 1..Len(formatted), key \in AliasedOutputKeys :
      /\ formatted[m][key] =
           Str(FirstPresent(result.matches[m].fantraxData,
                            OutputColumns(key, result.columnMapping)))
      /\ Present(Lookup(result.matches[m].fantraxData,
                        OutputColumns(key, result.columnMapping)[1]))
         => formatted[m][key] =
              Str(Trim(StringOf(Lookup(result.matches[m].fantraxData,
                                       OutputColumns(key, result.columnMapping)[1]))))

\* A row was formatted under a mapping whose number role is Number from a
\* matched record whose Number is null and whose column # holds 9: the
\* output number is 9.
C19_Witness ==
  /\ fpc = "formatted"
  /\ \E m \in 1..Len(formatted) :
       /\ result.columnMapping.fantrax.number = Id("Number")
       /\ Prop(result.matches[m].fantraxData, "Number") = NullV
       /\ Prop(result.matches[m].fantraxData, "#") = Str(<<"9">>)
       /\ formatted[m]["Fantrax Number"] = Str(<<"9">>)

\* The identifier the returned mapping is to hold for a role of a dataset:
\* the caller's where the caller supplied the role, else the default.
MergedRole(supplied, role, default) ==
  IF role \in DOMAIN supplied THEN supplied[role] ELSE Id(default)

C21_InputsUntouchedCallsAgree ==
  /\ [][/\ fantraxPlayers' = fantraxPlayers
         /\ ibwPlayers' = ibwPlayers
         /\ columnMapping' = columnMapping]_vars
  /\ [](calls = 2 /\ pc = "done" => result = previous.result)

\* The second call returned, with a match, under a caller's mapping that
\* leaves roles to the defaults.
C21_Witness ==
  /\ calls = 2
  /\ pc = "done"
  /\ result.matches # <<>>
  /\ result = previous.result
  /\ columnMapping # result.columnMapping

\* The name-only key and the full key of the record of dataset A at
\* position i, and whether the record holds a name.
NameOnlyKeyA(i) ==
  createMatchKey(getFieldValue(fantraxPlayers.items[i], mapping.fantrax.player),
                 TeamOmitted)
FullKeyA(i) ==
  createMatchKey(getFieldValue(fantraxPlayers.items[i], mapping.fantrax.player),
                 TeamArg(getFieldValue(fantraxPlayers.items[i], mapping.fantrax.team)))
NamedA(i) ==
  getFieldValue(fantraxPlayers.items[i], mapping.fantrax.player) # <<>>

\* C25: after any number of records of dataset A have been indexed, and
\* when findMatches returns, nameOnly[k] is the earliest of them that holds a name and has the
\* name-only key k, and every such key is in the index.
C25_NameOnlyFirstWins ==
  pc \in {"index", "done"} =>
    /\ \A k \in DOMAIN fantraxPlayersMap.nameOnly :
         /\ fantraxPlayersMap.nameOnly[k] \in 1..aIdx
         /\ NamedA(fantraxPlayersMap.nameOnly[k])
         /\ NameOnlyKeyA(fantraxPlayersMap.nameOnly[k]) = k
         /\ \A i \in 1..aIdx :
              (NamedA(i) /\ NameOnlyKeyA(i) = k) => fantraxPlayersMap.nameOnly[k] <= i
    /\ \A i \in 1..aIdx :
         NamedA(i) => NameOnlyKeyA(i) \in DOMAIN fantraxPlayersMap.nameOnly

\* Three records of one name were indexed and the name-only index holds the
\* first.
C25_Witness ==
  /\ pc = "done"
  /\ Len(fantraxPlayers.items) = 3
  /\ NamedA(1)
  /\ NameOnlyKeyA(2) = NameOnlyKeyA(1)
  /\ NameOnlyKeyA(3) = NameOnlyKeyA(1)
  /\ fantraxPlayers.items[1] # fantraxPlayers.items[3]
  /\ fantraxPlayersMap.nameOnly[NameOnlyKeyA(1)] = 1

\* C26: after any number of records of dataset A have been indexed, and
\* when findMatches returns, exact[k] is the latest of them that holds a name and has the full key k,
\* and every such key is in the index; an exact match on a key that two
\* records share returns the later one, a name-only match on their name the
\* earlier one.
C26_ExactLastWins ==
  pc \in {"index", "done"} =>
    /\ \A k \in DOMAIN fantraxPlayersMap.exact :
         /\ fantraxPlayersMap.exact[k] \in 1..aIdx
         /\ NamedA(fantraxPlayersMap.exact[k])
         /\ FullKeyA(fantraxPlayersMap.exact[k]) = k
         /\ \A i \in 1..aIdx :
              (NamedA(i) /\ FullKeyA(i) = k) => i <= fantraxPlayersMap.exact[k]
    /\ \A i \in 1..aIdx :
         NamedA(i) => FullKeyA(i) \in DOMAIN fantraxPlayersMap.exact
    /\ \A m \in 1..Len(matchingPlayers) :
         \A i \in 1..Len(fantraxPlayers.items) :
           LET ref == matchingPlayers[m].fantraxRef
           IN  /\ (/\ matchingPlayers[m].matchType = "exact"
                   /\ NamedA(i)
                   /\ FullKeyA(i) = FullKeyA(ref)) => i <= ref
               /\ (/\ matchingPlayers[m].matchType = "name-only"
                   /\ NamedA(i)
                   /\ NameOnlyKeyA(i) = NameOnlyKeyA(ref)) => ref <= i

\* Two records of dataset A share a full key; one record of dataset B was
\* matched exactly to the later, another by name only to the earlier.
C26_Witness ==
  /\ pc = "done"
  /\ Len(fantraxPlayers.items) = 2
  /\ NamedA(1)
  /\ FullKeyA(1) = FullKeyA(2)
  /\ fantraxPlayers.items[1] # fantraxPlayers.items[2]
  /\ Len(matchingPlayers) = 2
  /\ matchingPlayers[1].matchType = "exact"
  /\ matchingPlayers[1].fantraxRef = 2
  /\ matchingPlayers[2].matchType = "name-only"
  /\ matchingPlayers[2].fantraxRef = 1

\* C29: when findMatches returns, the number of matches is
\* stats.totalMatches and at most the number of records of dataset B that
\* hold a name; every match holds the record of dataset B at its ibwIndex, a
\* record of dataset A that holds a name, and the type 'exact' or
\* 'name-only'.
C29_MatchesWellFormed ==
  pc = "done" =>
    /\ Len(result.matches) = result.stats.totalMatches
    /\ Len(result.matches) <= Len(NamedIBW)
    /\ \A m \in 1..Len(result.matches) :
         /\ result.matches[m].ibwIndex \in 0..(Len(ibwPlayers.items) - 1)
         /\ result.matches[m].ibwPlayer
              = ibwPlayers.items[result.matches[m].ibwIndex + 1]
         /\ \E i \in 1..Len(fantraxPlayers.items) :
              /\ result.matches[m].fantraxData = fantraxPlayers.items[i]
              /\ ~NamelessA(i)
         /\ result.matches[m].matchType \in {"exact", "name-only"}

\* findMatches returned one match for a dataset B of two records, the first
\* of them without a name, from a dataset A that holds a nameless record.
C29_Witness ==
  /\ pc = "done"
  /\ Len(ibwPlayers.items) = 2
  /\ NamelessB(1)
  /\ \E i \in 1..Len(fantraxPlayers.items) : NamelessA(i)
  /\ Len(result.matches) = 1
  /\ result.matches[1].ibwIndex = 1
  /\ result.matches[1].matchType = "name-only"

\* A record is sparse or malformed under a role mapping: for some role that
\* holds an identifier, the record's value is missing, null or not a string.
Sparse(record, roleMapping) ==
  \E r \in DOMAIN roleMapping :
    /\ roleMapping[r].k = "id"
    /\ Lookup(record, roleMapping[r].ids[1]).t # "str"

\* Validation has passed and findMatches has not returned yet; the guard
\* of the step that indexes or matches the next record, or of the step that
\* ends the loop, holds.
Running == pc \in {"index", "match"}
NextStepReady ==
  \/ pc = "index" /\ aIdx \in 0..Len(fantraxPlayers.items)
  \/ pc = "match" /\ bIdx \in 0..Len(ibwPlayers.items)

\* C27: once validation has passed, findMatches does not fail and returns,
\* and the sparse or malformed records of dataset A and B are in no match.
C27_SparseRecordsUnmatched ==
  /\ Running => NextStepReady
  /\ pc = "done" =>
       \A m \in 1..Len(result.matches) :
         /\ ~Sparse(result.matches[m].ibwPlayer, mapping.ibw)
         /\ ~Sparse(result.matches[m].fantraxData, mapping.fantrax)

\* C27 as amended: findMatches fails only in validation, before any record
\* is indexed or matched; once validation has passed every step but the
\* return is followed by another, whatever the later records hold; a record
\* without a player name is skipped and in no match, and a record of dataset
\* B that holds a name is matched whenever the name-only index holds its
\* name, sparse or not.
C27_NoFailureAfterValidation ==
  /\ pc = "error" =>
       /\ aIdx = 0
       /\ bIdx = 0
       /\ fantraxPlayersMap = EmptyMaps
       /\ matchingPlayers = <<>>
  /\ Running => NextStepReady
  /\ Validated =>
       /\ \A m \in 1..Len(matchingPlayers) :
            /\ ~NamelessB(matchingPlayers[m].ibwIndex + 1)
            /\ ~NamelessA(matchingPlayers[m].fantraxRef)
       /\ \A j \in 1..bIdx :
            (/\ ~NamelessB(j)
             /\ MapHas(fantraxPlayersMap.nameOnly,
                       createMatchKey(getFieldValue(ibwPlayers.items[j],
                                                    mapping.ibw.player),
                                      TeamOmitted)))
            => MatchesOf(j - 1) # {}

\* findMatches returned a match to a record of dataset A whose Number,
\* Position and Age are null, from datasets whose second records hold no
\* player name.
C27_Witness ==
  /\ pc = "done"
  /\ Len(fantraxPlayers.items) = 2
  /\ Len(ibwPlayers.items) = 2
  /\ NamelessA(2)
  /\ NamelessB(2)
  /\ Len(result.matches) = 1
  /\ Prop(result.matches[1].fantraxData, "Number") = NullV
  /\ Sparse(result.matches[1].fantraxData, mapping.fantrax)

\* The match types, ibwIndex values and matched records of dataset A of a
\* sequence of matches.
MatchOutline(matches) ==
  [m \in 1..Len(matches) |->
     [matchType |-> matches[m].matchType, ibwIndex |-> matches[m].ibwIndex,
      fantraxRef |-> matches[m].fantraxRef]]

\* C28: findMatches on the keyed datasets that hold the values of
\* positional datasets under the keys "0", "1", ..., with the same index
\* identifiers in the mapping, fails in validation exactly when it fails on
\* the positional datasets, for the same dataset, and otherwise returns the
\* same match types, ibwIndex values and statistics.
C28_KeyedRunAgreesWithPositional ==
  calls = 2 =>
    /\ pc = "error" =>
         /\ previous.error # NoError
         /\ previous.error.dataType = error.dataType
    /\ pc \in {"index", "match", "done"} => previous.error = NoError
    /\ pc = "done" =>
         /\ previous.result.returned
         /\ result.stats = previous.result.stats
         /\ MatchOutline(result.matches) = MatchOutline(previous.result.matches)
         /\ result.columnMapping = previous.result.columnMapping

\* Both runs returned, with an exact and a name-only match.
C28_Witness ==
  /\ calls = 2
  /\ pc = "done"
  /\ ~fantraxPlayers.items[1].isArray
  /\ result.stats.exactMatches = 1
  /\ result.stats.nameOnlyMatches = 1
  /\ previous.result.stats.totalMatches = 2

\* The lines of the text as written, before trimming and filtering.
InputLines == Split(StringOf(textContent))

\* A line of the form "number) name - team, position, age" whose name, team
\* and position are not empty once trimmed.
YieldsPlayer(line) ==
  LET m == basicInfoMatch(Trim(line))
  IN m.matched /\ ~MissingRequiredFields(m)

PlayerOfLine(line) == PlayerOf(basicInfoMatch(Trim(line)))

ExpectedPlayers ==
  LET yielding == SelectSeq(InputLines, YieldsPlayer)
  IN [i \in 1..Len(yielding) |-> PlayerOfLine(yielding[i])]

ForEachDone == ppc \in {"lines", "returned", "error"} /\ lineIdx = Len(lines)

\* C22: once parseIBWText has gone through the lines, players holds exactly
\* one record per input line that matches "number) name - team, position,
\* age" with a non-empty trimmed name, team and position, in the order of
\* those lines in the text; every other line (blank, not matching, or with an
\* empty name, team or position) is passed over and the lines after it are
\* still parsed.
C22_OnePlayerPerMatchingLine ==
  ForEachDone => players = ExpectedPlayers

\* Two players returned in the order of the text (not of their numbers),
\* with a line in between skipped for a missing field.
C22_Witness ==
  /\ ppc = "returned"
  /\ Len(players) = 2
  /\ players[1].number > players[2].number
  /\ Len(skippedLines) = 1
  /\ skippedLines[1].reason = "Missing required fields"
  /\ skippedLines[1].line = 2

SomeLineYields == \E i \in 1..Len(InputLines) : YieldsPlayer(InputLines[i])

\* The text holds a line that is not blank.
HasContent == \E i \in 1..Len(InputLines) : Trim(InputLines[i]) # <<>>

ParseFinished == ppc \in {"returned", "error"}

\* C23: parseIBWText raises "Invalid input: textContent must be a non-empty
\* string" for an empty string, null, undefined or a non-string; it raises
\* "No valid player data found in IBW text. ..." for a string that holds a
\* non-blank line but no line that yields a player; and it returns, with a
\* non-empty array, exactly when some line yields a player.
C23_ParseErrors ==
  ParseFinished =>
    /\ InvalidText(textContent) => ppc = "error" /\ parseError = InvalidTextMsg
    /\ (~InvalidText(textContent) /\ HasContent /\ ~SomeLineYields)
         => ppc = "error" /\ parseError = NoPlayersMsg
    /\ ppc = "returned" <=> (~InvalidText(textContent) /\ SomeLineYields)
    /\ ppc = "returned" => players # <<>>

\* A text of lines that all fail, for different reasons, is refused.
C23_Witness ==
  /\ ppc = "error"
  /\ parseError = NoPlayersMsg
  /\ Len(skippedLines) = 2
  /\ skippedLines[1].reason # skippedLines[2].reason

\* s cut at every sep that stands outside double quotes, as a reader of CSV
\* cuts a text into rows and a row into fields.
RECURSIVE SplitOutside(_, _, _, _)
SplitOutside(s, sep, inQuotes, current) ==
  IF s = <<>> THEN <<current>>
  ELSE IF s[1] = Quote
  THEN SplitOutside(Tail(s), sep, ~inQuotes, Append(current, s[1]))
  ELSE IF s[1] = sep /\ ~inQuotes
  THEN <<current>> \o SplitOutside(Tail(s), sep, FALSE, <<>>)
  ELSE SplitOutside(Tail(s), sep, inQuotes, Append(current, s[1]))

CsvRows(text) == SplitOutside(text, "\n", FALSE, <<>>)
CsvFields(row) == IF row = <<>> THEN <<>> ELSE SplitOutside(row, ",", FALSE, <<>>)

\* s with every doubled quote read as one quote.
RECURSIVE Undouble(_)
Undouble(s) ==
  IF s = <<>> THEN <<>>
  ELSE IF Len(s) >= 2 /\ s[1] = Quote /\ s[2] = Quote
  THEN <<Quote>> \o Undouble(Drop(s, 2))
  ELSE <<s[1]>> \o Undouble(Tail(s))

Inner(field) == SubSeq(field, 2, Len(field) - 1)

\* A field in double quotes whose own quotes are all doubled.
DoubleQuoted(field) ==
  /\ Len(field) >= 2
  /\ field[1] = Quote
  /\ field[Len(field)] = Quote
  /\ DoubleQuotes(Undouble(Inner(field))) = Inner(field)

CsvNames == csvHeaders(objects, headers)

ObjectLacks(i) ==
  \E k \in 1..Len(CsvNames) : ~In(CsvNames[k], objects.items[i])

\* The lowest position of an object that lacks a header, and the first
\* header, in header order, that this object lacks.
LowestLacking ==
  CHOOSE i \in 1..Len(objects.items) :
    ObjectLacks(i) /\ \A j \in 1..(i - 1) : ~ObjectLacks(j)
FirstHeaderLacking ==
  CsvNames[CHOOSE k \in 1..Len(CsvNames) :
             /\ ~In(CsvNames[k], objects.items[LowestLacking])
             /\ \A l \in 1..(k - 1) : In(CsvNames[l], objects.items[LowestLacking])]

RenderedEmpty(value) == value \in {NullV, UndefV, Str(<<>>)}

MatchesFound == result.returned /\ result.stats.totalMatches > 0

CliEnded == cliPc \in {"finished", "exited"}

\* C30: the command line calls writeCSV only after findMatches has returned
\* with stats.totalMatches > 0, and the output file is touched by writeCSV
\* only; when reading, column resolution or matching raises, or no match is
\* found, the process ends with status 1, writeCSV was never called and the
\* output file is as it was.
C30_WritesOnlyAfterMatches ==
  /\ writeCalls > 0 => MatchesFound /\ pc = "done"
  /\ outputFile = "written" => writeCalls > 0
  /\ (CliEnded /\ ~MatchesFound) =>
       exitCode = 1 /\ writeCalls = 0 /\ outputFile = "untouched"
  /\ pc = "error" => cliPc \in {"matching", "exited"}

\* findMatches returned without a match and the process ended.
C30_Witness ==
  /\ cliPc = "exited"
  /\ result.returned
  /\ result.stats.totalMatches = 0
  /\ result.stats.totalIBWPlayers > 0
  /\ exitCode = 1

====
